---- MODULE Spec2Model ----
(***************************************************************************)
(* Model of the recording core of tutorslink/discordbot:                   *)
(*   - OggWriter (ogg-writer.js, src/unnamed/part_000): the Ogg/Opus       *)
(*     container writer, its page serializer and its lifecycle calls;      *)
(*   - the raw-dump writer of src/demo.js: the per-track write queue, its  *)
(*     worker, backpressure and the stop path.                             *)
(* JavaScript runs each callback to completion, so one action is one       *)
(* event-loop turn: the synchronous part of a call up to its first await,  *)
(* or the continuation that runs when an awaited sink operation settles.   *)
(***************************************************************************)
EXTENDS Integers, Sequences, FiniteSets, TLC

VARIABLES
  \* ---- OggWriter object (constructor, part_000:13-36) ----
  fd,                   \* this.fd: "null", "open" or "closed" file handle
  pageSequenceNumber,   \* this.pageSequenceNumber
  granulePosition,      \* this.granulePosition
  bytesWritten,         \* this.bytesWritten
  packetsWritten,       \* this.packetsWritten
  firstPacketReceived,  \* this.firstPacketReceived
  tocBytes,             \* this.tocBytes (diagnostics, first 10 TOC bytes)
  \* ---- the output file and the calls in progress ----
  sink,                 \* chunks the file holds, in the order they were written
  inflight,             \* async calls suspended on a sink operation
  \* ---- history ----
  log,                  \* one entry per call made on the writer, in call order
  nextPg,               \* pages built so far (identifies the chunks of a page)
  \* ---- raw-dump writer of one track (createOpusRecorder, demo.js:180-265) ----
  writeQueue,           \* writeQueue: the records waiting for the worker
  pendingWrites,        \* pendingWrites
  isProcessingQueue,    \* isProcessingQueue
  stopped,              \* controller.stopped
  workerItem,           \* the item whose write awaits 'drain' (0: none)
  \* ---- the fs.WriteStream of the track ----
  streamBuffer,         \* chunks handed to the stream and not yet on disk
  needDrain,            \* a write returned false and 'drain' is still due
  ending,               \* end() was called
  finished,             \* 'finish' was emitted
  destroyed,            \* the stream was destroyed (error or destroy())
  file,                 \* records on disk, in order
  \* ---- stopUserRecording (demo.js:323-406) ----
  stopPc,               \* "none", "polling", "closing", "resolved", "rejected"
  \* ---- history ----
  promise,              \* per writeQueue call: "pending", "resolved", "rejected"
  accepted,             \* the records pushed on writeQueue, in call order
  handed,               \* the buffers passed to stream.write, in call order
  drainWaits,           \* times the worker suspended on 'drain'
  sinkFailed,           \* the stream has emitted 'error'
  failedWrite,          \* the record whose write made it do so (0: none)
  frames,               \* per writeQueue call: the buffer it was given
  \* ---- the 'data' handler of the track (subscribeUserOpus, demo.js:467-616) ----
  packetsReceived,      \* packetsReceived
  bytesReceived,        \* the handler's local bytesWritten
  rxFirstPacketReceived,\* the handler's local firstPacketReceived
  ctlPacketsWritten,    \* controller.packetsWritten
  ctlBytesWritten,      \* controller.bytesWritten
  \* ---- history ----
  dataEvents,           \* 'data' events handled so far
  lastData,             \* the last of them: the packet and what became of it
  source,               \* per writeQueue call: the packet and timestamp framed
  \* ---- the writer's pure functions ----
  fnIn,                 \* the function applied and its arguments
  fnOut,                \* what it returned, NoOut before it ran
  \* ---- one recording session ----
  tracks,               \* session.userRecordings: per user, the track
  files,                \* per path, the records on the file
  finalizing,           \* "no", "stopping" (session._finalizing), "validated",
                        \* "notifying", "cleanup" (session._finalized), "deleted"
  awaited,              \* tracks whose stop finalizeRecording waits for
  opened,               \* per user, the write streams created so far
  subscribes,           \* the calls of subscribeUserOpus so far
  validated,            \* tracks whose file finalizeRecording inspected
  validatedOpen,        \* those inspected before their stream had closed
  starting,             \* per user, subscribeUserOpus calls at their await
  orphans,              \* per user, controllers replaced in the session
  orphanBuffer,         \* per user, records those controllers still hold
  received,             \* per user, the 'data' events handled so far
  finalizeRuns,         \* finalizeRecording calls that went past the guard
  saved,                \* times finalizeRecording saved the recording's metadata
  notified,             \* times notifyStaffRecording was called
  skipped               \* a finalizeRecording call has returned at the guard

oggVars == <<fd, pageSequenceNumber, granulePosition, bytesWritten,
             packetsWritten, firstPacketReceived, tocBytes, sink, inflight,
             log, nextPg>>

rawVars == <<writeQueue, pendingWrites, isProcessingQueue, stopped,
             workerItem, streamBuffer, needDrain, ending, finished, destroyed,
             file, stopPc, promise, accepted, handed, drainWaits, sinkFailed,
             failedWrite, frames, packetsReceived, bytesReceived,
             rxFirstPacketReceived, ctlPacketsWritten, ctlBytesWritten,
             dataEvents, lastData, source>>

fnVars == <<fnIn, fnOut>>

sessVars == <<tracks, files, finalizing, awaited, opened, subscribes,
              validated, validatedOpen, starting, orphans, orphanBuffer,
              received, finalizeRuns, saved, notified, skipped>>

vars == <<oggVars, rawVars, fnVars, sessVars>>

----------------------------------------------------------------------------
\* Bounds of the model
MaxCalls == 3        \* calls made on one writer
MaxInFlight == 2     \* writeOpusPacket calls started without awaiting
MaxRecords == 4      \* controller.writeQueue calls on one track
MaxPackets == 3      \* 'data' events on one track
HighWaterMark == 2   \* records the stream buffers before write() returns false
MaxFrames == 2       \* 'data' events of a user of the session
MaxSubscribes == 2   \* subscribeUserOpus calls of the session

\* Program constants
SampleRate == 48000
MaxSegmentSize == 255
PageHeaderLen == 27
OpusHeadLen == 19
VendorLen == 25
BosHeaderType == 2
ContHeaderType == 0
EosHeaderType_Cont == ContHeaderType
EosHeaderType == 4
MaxTocBytes == 10
UInt8Max == 255

----------------------------------------------------------------------------
\* Inputs of writeOpusPacket: byte buffers (length, first byte) and one value
\* that is not a buffer.
Buf(l, t) == [isBuffer |-> TRUE, len |-> l, toc |-> t]
NotABuffer == [isBuffer |-> FALSE, len |-> 0, toc |-> 0]
NoPacket == [isBuffer |-> FALSE, len |-> -1, toc |-> 0]

ValidPackets == {Buf(1, 1), Buf(255, 83)}
InvalidPackets == {Buf(0, 0), NotABuffer}
PacketInputs == ValidPackets \cup InvalidPackets

----------------------------------------------------------------------------
\* parseOpusTOC: samples per packet from the TOC byte
Durations == <<10, 20, 40, 60>>

TocConfig(tocByte) == tocByte % 4

TocFrameCountCode_Shift3(tocByte) == (tocByte \div 8) % 16

TocFrameCountCode(tocByte) == (tocByte \div 16) % 16

TocFrameCount(tocByte) ==
  LET code == TocFrameCountCode(tocByte)
  IN  IF code = 0 THEN 1
      ELSE IF code = 1 \/ code = 2 THEN 2
      ELSE IF code = 3 THEN 1
      ELSE code - 3

SamplesPerFrameAt(tocByte, sampleRate) ==
  (Durations[(TocConfig(tocByte) % 4) + 1] * sampleRate) \div 1000

SamplesPerFrame(tocByte) == SamplesPerFrameAt(tocByte, SampleRate)

SamplesPerPacket(tocByte) == SamplesPerFrame(tocByte) * TocFrameCount(tocByte)

----------------------------------------------------------------------------
\* writeOggPage: the segment table of a packet of the given length
Min(a, b) == IF a < b THEN a ELSE b

\* the while loop: its i-th pass finds remaining - (i - 1) * maxSegmentSize
\* bytes left and pushes the smaller of that and maxSegmentSize
SegmentLoop(remaining) ==
  [i \in 1..((remaining + MaxSegmentSize - 1) \div MaxSegmentSize) |->
     Min(remaining - (i - 1) * MaxSegmentSize, MaxSegmentSize)]

Segments(len) == IF len = 0 THEN <<0>> ELSE SegmentLoop(len)

PageSize(len) == PageHeaderLen + Len(Segments(len)) + len

OpusTagsLen == 8 + 4 + VendorLen + 4

----------------------------------------------------------------------------
\* writeOggPage: one page being written.  step 0: the header write is
\* outstanding; step 1: the segment table write; step 1+i: the write of the
\* i-th payload segment.
NoJob == [pg |-> 0, call |-> 0, headerType |-> 0, granule |-> 0, seq |-> 0,
          segs |-> <<>>, len |-> 0, step |-> 0]

\* The synchronous part of writeOggPage: the segment table and the header are
\* built (stamping this.pageSequenceNumber as it is now) and the header write
\* is issued.
NewJob(callId, len, headerType, granulePos) ==
  [pg |-> nextPg + 1, call |-> callId, headerType |-> headerType,
   granule |-> granulePos, seq |-> pageSequenceNumber,
   segs |-> Segments(len), len |-> len, step |-> 0]

\* The chunk the outstanding write of job j puts in the file
RECURSIVE SumSeq(_)
SumSeq(s) == IF s = <<>> THEN 0 ELSE Head(s) + SumSeq(Tail(s))

JobChunk(j) ==
  [kind |-> IF j.step = 0 THEN "hdr" ELSE IF j.step = 1 THEN "seg" ELSE "pay",
   pg |-> j.pg, call |-> j.call, headerType |-> j.headerType,
   granule |-> j.granule, seq |-> j.seq, nsegs |-> Len(j.segs),
   len |-> j.len,
   table |-> IF j.step = 1 THEN j.segs ELSE <<>>,
   off |-> IF j.step >= 2 THEN SumSeq(SubSeq(j.segs, 1, j.step - 2)) ELSE 0,
   size |-> IF j.step = 0 THEN PageHeaderLen
            ELSE IF j.step = 1 THEN Len(j.segs)
            ELSE j.segs[j.step - 1]]

\* The next write of the page after the outstanding one: segments of size 0
\* are not written (the loop at part_000:218-223); 0 when the page is complete.
NextStep(j) ==
  LET later == {k \in (j.step + 1)..(Len(j.segs) + 1) :
                   k = 1 \/ (k >= 2 /\ j.segs[k - 1] > 0)}
  IN  IF later = {} THEN 0
      ELSE CHOOSE k \in later : \A m \in later : k <= m

----------------------------------------------------------------------------
\* Calls on the writer
NoRet == [bytesWritten |-> -1, packetsWritten |-> -1, granulePosition |-> -1]

LogEntry(op, pkt, res, conc) ==
  [op |-> op, pkt |-> pkt, res |-> res, conc |-> conc, ret |-> NoRet,
   failed |-> 0]

Call(id, op, phase, job) == [id |-> id, op |-> op, phase |-> phase, job |-> job]

SetRes(id, r) == [log EXCEPT ![id].res = r]

\* An awaited sink operation of call c rejected.  init() and finalize() catch,
\* log and rethrow; writeOpusPacket has no handler: in each case the call ends
\* there, rejected, and the operation is not issued again.  (failed counts the
\* sink operations of the call that rejected.)
Rethrow_Retry(c) ==
  /\ inflight' = inflight
  /\ log' = [log EXCEPT ![c.id].failed = @ + 1]

Rethrow(c) ==
  /\ inflight' = inflight \ {c}
  /\ log' = [log EXCEPT ![c.id].res = "ioerr", ![c.id].failed = @ + 1]

IsValidPacket_NoLengthCheck(p) == p.isBuffer

IsValidPacket(p) == p.isBuffer /\ p.len # 0

OggInit ==
  /\ fd = "null"
  /\ pageSequenceNumber = 0
  /\ granulePosition = 0
  /\ bytesWritten = 0
  /\ packetsWritten = 0
  /\ firstPacketReceived = FALSE
  /\ tocBytes = <<>>
  /\ sink = <<>>
  /\ inflight = {}
  /\ log = <<>>
  /\ nextPg = 0

\* init(): the open of the file is issued
CallInit ==
  /\ Len(log) < MaxCalls
  /\ inflight = {}
  /\ inflight' = {Call(Len(log) + 1, "init", "open", NoJob)}
  /\ log' = Append(log, LogEntry("init", NoPacket, "pending", FALSE))
  /\ UNCHANGED <<fd, pageSequenceNumber, granulePosition, bytesWritten,
                 packetsWritten, firstPacketReceived, tocBytes, sink, nextPg>>

\* fs.promises.open(path, 'w') succeeded: the file is truncated, this.fd is
\* set and the OpusHead page is started
OpenDone(c) ==
  /\ c \in inflight /\ c.phase = "open"
  /\ fd' = "open"
  /\ sink' = <<>>
  /\ inflight' = (inflight \ {c}) \cup
       {Call(c.id, "init", "head", NewJob(c.id, OpusHeadLen, BosHeaderType, 0))}
  /\ nextPg' = nextPg + 1
  /\ UNCHANGED <<pageSequenceNumber, granulePosition, bytesWritten,
                 packetsWritten, firstPacketReceived, tocBytes, log>>

\* the open failed: init() logs and rethrows
OpenFail(c) ==
  /\ c \in inflight /\ c.phase = "open"
  /\ Rethrow(c)
  /\ UNCHANGED <<fd, pageSequenceNumber, granulePosition, bytesWritten,
                 packetsWritten, firstPacketReceived, tocBytes, sink, nextPg>>

\* writeOpusPacket(p), up to its first await
CallWrite(p) ==
  /\ Len(log) < MaxCalls
  /\ Cardinality(inflight) < MaxInFlight
  /\ \A c \in inflight : c.op = "write"
  /\ LET id == Len(log) + 1
         conc == inflight # {}
         marked == [i \in 1..Len(log) |->
                      IF \E c \in inflight : c.id = i
                      THEN [log[i] EXCEPT !.conc = TRUE] ELSE log[i]]
     IN
     IF ~IsValidPacket(p)
     THEN /\ log' = Append(log, LogEntry("write", p, "noop", FALSE))
          /\ UNCHANGED <<fd, pageSequenceNumber, granulePosition,
                         bytesWritten, packetsWritten, firstPacketReceived,
                         tocBytes, sink, inflight, nextPg>>
     ELSE /\ firstPacketReceived' = TRUE
          /\ tocBytes' = IF ~firstPacketReceived \/ Len(tocBytes) < MaxTocBytes
                         THEN Append(tocBytes, p.toc) ELSE tocBytes
          /\ granulePosition' = granulePosition + SamplesPerPacket(p.toc)
          /\ packetsWritten' = packetsWritten + 1
          /\ IF fd = "open"
             THEN /\ inflight' = inflight \cup
                       {Call(id, "write", "page",
                             NewJob(id, p.len, ContHeaderType, granulePosition'))}
                  /\ nextPg' = nextPg + 1
                  /\ log' = Append(marked, LogEntry("write", p, "pending", conc))
             ELSE \* this.fd is null (TypeError) or closed (EBADF): rejected
                  /\ log' = Append(marked, LogEntry("write", p, "err", conc))
                  /\ UNCHANGED <<inflight, nextPg>>
          /\ UNCHANGED <<fd, pageSequenceNumber, bytesWritten, sink>>

\* finalize() that returns silently when the file is not open
CallFinalize_SilentWhenNotOpen ==
  /\ Len(log) < MaxCalls
  /\ inflight = {}
  /\ IF fd = "open"
     THEN /\ inflight' = {Call(Len(log) + 1, "finalize", "eos",
                NewJob(Len(log) + 1, 0, EosHeaderType, granulePosition))}
          /\ nextPg' = nextPg + 1
          /\ log' = Append(log, LogEntry("finalize", NoPacket, "pending", FALSE))
     ELSE /\ log' = Append(log, LogEntry("finalize", NoPacket, "ok", FALSE))
          /\ UNCHANGED <<inflight, nextPg>>
  /\ UNCHANGED <<fd, pageSequenceNumber, granulePosition, bytesWritten,
                 packetsWritten, firstPacketReceived, tocBytes, sink>>

\* finalize(), up to its first await
CallFinalize ==
  /\ Len(log) < MaxCalls
  /\ inflight = {}
  /\ IF fd = "open"
     THEN /\ inflight' = {Call(Len(log) + 1, "finalize", "eos",
                NewJob(Len(log) + 1, 0, EosHeaderType, granulePosition))}
          /\ nextPg' = nextPg + 1
          /\ log' = Append(log, LogEntry("finalize", NoPacket, "pending", FALSE))
     ELSE /\ log' = Append(log, LogEntry("finalize", NoPacket, "err", FALSE))
          /\ UNCHANGED <<inflight, nextPg>>
  /\ UNCHANGED <<fd, pageSequenceNumber, granulePosition, bytesWritten,
                 packetsWritten, firstPacketReceived, tocBytes, sink>>

----------------------------------------------------------------------------
\* Continuations: an awaited sink operation of call c settles

\* this.fd.write of a page part succeeded and the page is not complete: the
\* next part is issued
PageWriteDone(c) ==
  /\ c \in inflight /\ c.job # NoJob /\ c.phase \in {"head", "tags", "page", "eos"}
  /\ NextStep(c.job) # 0
  /\ sink' = Append(sink, JobChunk(c.job))
  /\ inflight' = (inflight \ {c}) \cup
       {[c EXCEPT !.job.step = NextStep(c.job)]}
  /\ UNCHANGED <<fd, pageSequenceNumber, granulePosition, bytesWritten,
                 packetsWritten, firstPacketReceived, tocBytes, log, nextPg>>

\* the last write of a page succeeded: writeOggPage updates the counters and
\* returns, and the caller goes on (init: next header page or return true;
\* writeOpusPacket: return; finalize: this.fd.sync())
PageDone(c) ==
  /\ c \in inflight /\ c.job # NoJob /\ c.phase \in {"head", "tags", "page", "eos"}
  /\ NextStep(c.job) = 0
  /\ sink' = Append(sink, JobChunk(c.job))
  /\ pageSequenceNumber' = pageSequenceNumber + 1
  /\ bytesWritten' = bytesWritten + PageSize(c.job.len)
  /\ IF c.phase = "head"
     THEN /\ inflight' = (inflight \ {c}) \cup
               {Call(c.id, "init", "tags",
                  [NewJob(c.id, OpusTagsLen, ContHeaderType, 0)
                     EXCEPT !.seq = pageSequenceNumber'])}
          /\ nextPg' = nextPg + 1
          /\ log' = log
     ELSE IF c.phase = "eos"
     THEN /\ inflight' = (inflight \ {c}) \cup
               {Call(c.id, "finalize", "sync", NoJob)}
          /\ UNCHANGED <<nextPg, log>>
     ELSE /\ inflight' = inflight \ {c}
          /\ log' = SetRes(c.id, "ok")
          /\ nextPg' = nextPg
  /\ UNCHANGED <<fd, granulePosition, packetsWritten, firstPacketReceived,
                 tocBytes>>

\* a this.fd.write of a page part failed: writeOggPage throws before it
\* updates the counters, and the call rejects
PageWriteFail(c) ==
  /\ c \in inflight /\ c.job # NoJob /\ c.phase \in {"head", "tags", "page", "eos"}
  /\ Rethrow(c)
  /\ UNCHANGED <<fd, pageSequenceNumber, granulePosition, bytesWritten,
                 packetsWritten, firstPacketReceived, tocBytes, sink, nextPg>>

\* finalize: this.fd.sync() succeeded, this.fd.close() is issued
SyncDone(c) ==
  /\ c \in inflight /\ c.phase = "sync"
  /\ inflight' = (inflight \ {c}) \cup {Call(c.id, "finalize", "close", NoJob)}
  /\ UNCHANGED <<fd, pageSequenceNumber, granulePosition, bytesWritten,
                 packetsWritten, firstPacketReceived, tocBytes, sink, log,
                 nextPg>>

SyncFail(c) ==
  /\ c \in inflight /\ c.phase = "sync"
  /\ Rethrow(c)
  /\ UNCHANGED <<fd, pageSequenceNumber, granulePosition, bytesWritten,
                 packetsWritten, firstPacketReceived, tocBytes, sink, nextPg>>

\* finalize: this.fd.close() succeeded, the counters are returned
CloseDone(c) ==
  /\ c \in inflight /\ c.phase = "close"
  /\ fd' = "closed"
  /\ inflight' = inflight \ {c}
  /\ log' = [log EXCEPT ![c.id].res = "ok",
                        ![c.id].ret = [bytesWritten |-> bytesWritten,
                                       packetsWritten |-> packetsWritten,
                                       granulePosition |-> granulePosition]]
  /\ UNCHANGED <<pageSequenceNumber, granulePosition, bytesWritten,
                 packetsWritten, firstPacketReceived, tocBytes, sink, nextPg>>

\* the close failed: the handle is gone all the same, finalize rethrows
CloseFail(c) ==
  /\ c \in inflight /\ c.phase = "close"
  /\ fd' = "closed"
  /\ Rethrow(c)
  /\ UNCHANGED <<pageSequenceNumber, granulePosition, bytesWritten,
                 packetsWritten, firstPacketReceived, tocBytes, sink, nextPg>>

----------------------------------------------------------------------------
\* The raw-dump capture path of one track (demo.js).  A record is named by the
\* number of the controller.writeQueue call that carried it; frames[id] is the
\* buffer that call was given.

\* The 'data' events of the model: a packet the audio source emits and the
\* value Date.now() has when it arrives.  A timestamp is a 64-bit-safe integer
\* kept as four 16-bit limbs, least significant first (the two values used
\* straddle a carry into the high word).
DataEvents ==
  {[packet |-> Buf(1, 1), now |-> <<65535, 65535, 410, 0>>],
   [packet |-> Buf(65535, 83), now |-> <<0, 0, 411, 0>>],
   [packet |-> Buf(0, 0), now |-> <<0, 0, 411, 0>>],
   [packet |-> Buf(70000, 1), now |-> <<0, 0, 411, 0>>],
   [packet |-> NotABuffer, now |-> <<0, 0, 411, 0>>]}

NoData == [pkt |-> NoPacket, out |-> "none", call |-> 0]

UInt16Max == 65535

\* One byte of a buffer, and a run of opaque payload bytes
Byte(v) == [kind |-> "byte", v |-> v, n |-> 1]

Bytes(packet) == [kind |-> "bytes", v |-> packet.toc, n |-> packet.len]

\* buf.writeUInt16LE(value) accepts 0..65535 and throws a RangeError otherwise
FitsUInt16(value) == value >= 0 /\ value <= UInt16Max

WriteUInt16LE(value) == <<Byte(value % 256), Byte(value \div 256)>>

\* a 32-bit word is two limbs; buf.writeUInt32LE(word)
FitsUInt32(word) == FitsUInt16(word[1]) /\ FitsUInt16(word[2])

WriteUInt32LE(word) == WriteUInt16LE(word[1]) \o WriteUInt16LE(word[2])

\* Number(ts & 0xFFFFFFFFn) and Number(ts >> 32n)
TimestampLow(ts) == <<ts[1], ts[2]>>

TimestampHigh_Shift16(ts) == <<ts[2], ts[3]>>

TimestampHigh(ts) == <<ts[3], ts[4]>>

\* Buffer.concat([frameLengthBuffer, packet, timestampBuffer])
FrameBuffer_NoTimestamp(packet, ts) ==
  WriteUInt16LE(packet.len)
    \o (IF packet.len = 0 THEN <<>> ELSE <<Bytes(packet)>>)

FrameBuffer(packet, ts) ==
  WriteUInt16LE(packet.len)
    \o (IF packet.len = 0 THEN <<>> ELSE <<Bytes(packet)>>)
    \o WriteUInt32LE(TimestampLow(ts)) \o WriteUInt32LE(TimestampHigh(ts))

\* frameBuffer.length
RECURSIVE FrameSize(_)
FrameSize(buffer) ==
  IF buffer = <<>> THEN 0 ELSE Head(buffer).n + FrameSize(Tail(buffer))

\* the validation of the 'data' handler: before and after it counts the packet
SkipsAtEntry(packet) == ~packet.isBuffer \/ packet.len = 0 \/ packet.len < 1

SkipsFrameLength(frameLength) == frameLength = 0 \/ frameLength > UInt16Max

RawInit ==
  /\ writeQueue = <<>>
  /\ pendingWrites = 0
  /\ isProcessingQueue = FALSE
  /\ stopped = FALSE
  /\ workerItem = 0
  /\ streamBuffer = <<>>
  /\ needDrain = FALSE
  /\ ending = FALSE
  /\ finished = FALSE
  /\ destroyed = FALSE
  /\ file = <<>>
  /\ stopPc = "none"
  /\ promise = <<>>
  /\ accepted = <<>>
  /\ handed = <<>>
  /\ drainWaits = 0
  /\ sinkFailed = FALSE
  /\ failedWrite = 0
  /\ frames = <<>>
  /\ dataEvents = 0
  /\ lastData = NoData
  /\ source = <<>>
  /\ packetsReceived = 0
  /\ bytesReceived = 0
  /\ rxFirstPacketReceived = FALSE
  /\ ctlPacketsWritten = 0
  /\ ctlBytesWritten = 0

\* writeStream.writable
Writable == ~ending /\ ~destroyed

\* The worker's view of the track while its loop runs
WorkerState ==
  [q |-> writeQueue, buf |-> streamBuffer, nd |-> needDrain,
   pw |-> pendingWrites, pr |-> promise, hd |-> handed, item |-> 0,
   proc |-> TRUE, waits |-> drainWaits, fr |-> frames,
   rx |-> packetsReceived, cp |-> ctlPacketsWritten, cb |-> ctlBytesWritten]

\* writeQueue.shift()
ShiftItem_Pop(q) == q[Len(q)]

ShiftItem(q) == Head(q)

ShiftRest(q) == Tail(q)

\* stream.write(chunk): false when the buffered amount reaches the high water
\* mark.  It does not throw for a Buffer chunk: a failed write is reported by
\* the stream's 'error' event (StreamError), so the catch branch of the worker
\* is not taken.
WriteResult(buf) == Len(buf) < HighWaterMark

\* item.resolve(); pendingWrites--, and the .then callback the 'data' handler
\* attached to the promise, which runs before any other event:
\* controller.packetsWritten = packetsReceived; controller.bytesWritten += size
Resolved_KeepsPending(st, item) ==
  LET st1 == [st EXCEPT !.pr[item] = "resolved"]
  IN  IF st.fr[item].stats
      THEN [st1 EXCEPT !.cp = st.rx,
                       !.cb = @ + FrameSize(st.fr[item].buffer)]
      ELSE st1

Resolved(st, item) ==
  LET st1 == [st EXCEPT !.pr[item] = "resolved", !.pw = @ - 1]
  IN  IF st.fr[item].stats
      THEN [st1 EXCEPT !.cp = st.rx,
                       !.cb = @ + FrameSize(st.fr[item].buffer)]
      ELSE st1

\* The while loop of processWriteQueue, from its condition to the point where
\* it suspends on 'drain' or leaves the loop
RECURSIVE WorkerLoop_NoWait(_, _, _)
WorkerLoop_NoWait(st, stoppedArg, writable) ==
  IF Len(st.q) > 0 /\ ~stoppedArg /\ writable
  THEN LET item == ShiftItem(st.q)
           buf1 == Append(st.buf, item)
           ret == WriteResult(buf1)
           st1 == [st EXCEPT !.q = ShiftRest(st.q), !.buf = buf1,
                             !.hd = Append(st.hd, item),
                             !.nd = st.nd \/ ~ret]
       IN  WorkerLoop_NoWait(Resolved(st1, item), stoppedArg, writable)
  ELSE [st EXCEPT !.proc = FALSE]

RECURSIVE WorkerLoop(_, _, _)
WorkerLoop(st, stoppedArg, writable) ==
  IF Len(st.q) > 0 /\ ~stoppedArg /\ writable
  THEN LET item == ShiftItem(st.q)
           buf1 == Append(st.buf, item)
           ret == WriteResult(buf1)
           st1 == [st EXCEPT !.q = ShiftRest(st.q), !.buf = buf1,
                             !.hd = Append(st.hd, item),
                             !.nd = st.nd \/ ~ret]
       IN  IF ~ret
           THEN [st1 EXCEPT !.item = item, !.waits = st.waits + 1]
           ELSE WorkerLoop(Resolved(st1, item), stoppedArg, writable)
  ELSE [st EXCEPT !.proc = FALSE]

\* processWriteQueue(stream, stopped), called with the worker not suspended
ProcessWriteQueue(st, stoppedArg, writable) ==
  IF isProcessingQueue \/ Len(st.q) = 0 \/ stoppedArg
  THEN [st EXCEPT !.proc = isProcessingQueue]
  ELSE WorkerLoop(st, stoppedArg, writable)

SetWorker(st) ==
  /\ writeQueue' = st.q
  /\ streamBuffer' = st.buf
  /\ needDrain' = st.nd
  /\ pendingWrites' = st.pw
  /\ promise' = st.pr
  /\ handed' = st.hd
  /\ workerItem' = st.item
  /\ isProcessingQueue' = st.proc
  /\ drainWaits' = st.waits
  /\ ctlPacketsWritten' = st.cp
  /\ ctlBytesWritten' = st.cb

\* the test at the head of controller.writeQueue
Refuses_NotWritableOnly == ~Writable

Refuses == stopped \/ ~Writable

\* controller.writeQueue(buffer); stats: the caller attaches the callback that
\* updates the controller's statistics; rx: packetsReceived when it would run
WriteQueueCall(buffer, stats, rx) ==
  /\ Len(promise) < MaxRecords
  /\ frames' = Append(frames, [buffer |-> buffer, stats |-> stats])
  /\ LET id == Len(promise) + 1 IN
     IF Refuses
     THEN /\ promise' = Append(promise, "rejected")
          /\ UNCHANGED <<writeQueue, pendingWrites, isProcessingQueue,
                         workerItem, streamBuffer, needDrain, handed,
                         accepted, drainWaits, ctlPacketsWritten,
                         ctlBytesWritten>>
     ELSE /\ accepted' = Append(accepted, id)
          /\ SetWorker(ProcessWriteQueue(
               [WorkerState EXCEPT !.q = Append(writeQueue, id),
                                   !.pw = pendingWrites + 1,
                                   !.pr = Append(promise, "pending"),
                                   !.item = workerItem,
                                   !.fr = frames',
                                   !.rx = rx],
               stopped, Writable))
  /\ UNCHANGED <<stopped, ending, finished, destroyed, file, stopPc,
                 sinkFailed, failedWrite>>

\* controller.writeQueue called on the controller object directly
WriteQueue ==
  /\ \E e \in {[packet |-> Buf(1, 1), now |-> <<0, 0, 411, 0>>]} :
       /\ WriteQueueCall(FrameBuffer(e.packet, e.now), FALSE, packetsReceived)
       /\ source' = Append(source, [pkt |-> e.packet, ts |-> e.now])
  /\ UNCHANGED <<dataEvents, lastData, packetsReceived, bytesReceived,
                 rxFirstPacketReceived>>

\* the 'data' handler returns without writing: out tells why
Dropped(packet, out) ==
  /\ dataEvents' = dataEvents + 1
  /\ lastData' = [pkt |-> packet, out |-> out, call |-> 0]
  /\ UNCHANGED <<writeQueue, pendingWrites, isProcessingQueue, stopped,
                 workerItem, streamBuffer, needDrain, ending, finished,
                 destroyed, file, stopPc, promise, accepted, handed,
                 drainWaits, sinkFailed, failedWrite, frames, source,
                 ctlPacketsWritten, ctlBytesWritten>>

\* the handler counts the packet (packetsReceived, its local bytesWritten)
PacketsCounted == IF ~rxFirstPacketReceived THEN 1 ELSE packetsReceived + 1

Count(packet) ==
  /\ rxFirstPacketReceived' = TRUE
  /\ packetsReceived' = PacketsCounted
  /\ bytesReceived' = IF ~rxFirstPacketReceived THEN packet.len
                      ELSE bytesReceived + packet.len

\* the handler from the length prefix on: the record is assembled and queued.
\* "caught": writeUInt16LE threw and the handler's try/catch logged it;
\* "refused": the stream is destroyed, stopped or not writable.
Assemble(packet, now) ==
  IF ~FitsUInt16(packet.len) THEN Dropped(packet, "caught")
  ELSE IF ~FitsUInt32(TimestampLow(now)) \/ ~FitsUInt32(TimestampHigh(now))
  THEN Dropped(packet, "skipped")
  ELSE IF destroyed \/ stopped \/ ~Writable THEN Dropped(packet, "refused")
  ELSE /\ dataEvents' = dataEvents + 1
       /\ lastData' = [pkt |-> packet, out |-> "queued",
                       call |-> Len(promise) + 1]
       /\ source' = Append(source, [pkt |-> packet, ts |-> now])
       /\ WriteQueueCall(FrameBuffer(packet, now), TRUE, PacketsCounted)

\* audioStream.on('data', packet)
OnData_NoLengthChecks(packet, now) ==
  /\ dataEvents < MaxPackets
  /\ Len(promise) < MaxRecords
  /\ IF ~packet.isBuffer
     THEN /\ Dropped(packet, "skipped")
          /\ UNCHANGED <<packetsReceived, bytesReceived, rxFirstPacketReceived>>
     ELSE /\ Count(packet)
          /\ Assemble(packet, now)

OnData(packet, now) ==
  /\ dataEvents < MaxPackets
  /\ Len(promise) < MaxRecords
  /\ IF SkipsAtEntry(packet)
     THEN /\ Dropped(packet, "skipped")
          /\ UNCHANGED <<packetsReceived, bytesReceived, rxFirstPacketReceived>>
     ELSE /\ Count(packet)
          /\ IF SkipsFrameLength(packet.len)
             THEN Dropped(packet, "skipped")
             ELSE Assemble(packet, now)

\* The stream has written its oldest buffered chunk to the file.  When the
\* buffer empties after a write that returned false, 'drain' is emitted and
\* the suspended worker resolves its item and goes on with the loop.
SinkFlush ==
  /\ streamBuffer # <<>>
  /\ ~destroyed
  /\ file' = Append(file, Head(streamBuffer))
  /\ IF Len(streamBuffer) = 1 /\ needDrain /\ ~ending
     THEN IF workerItem # 0
          THEN SetWorker(WorkerLoop(
                 Resolved([WorkerState EXCEPT !.buf = <<>>, !.nd = FALSE],
                          workerItem),
                 FALSE, Writable))
          ELSE /\ needDrain' = FALSE
               /\ streamBuffer' = <<>>
               /\ UNCHANGED <<writeQueue, pendingWrites, promise, handed,
                              workerItem, isProcessingQueue, drainWaits,
                              ctlPacketsWritten, ctlBytesWritten>>
     ELSE /\ streamBuffer' = Tail(streamBuffer)
          /\ UNCHANGED <<writeQueue, pendingWrites, promise, handed,
                         workerItem, isProcessingQueue, drainWaits, needDrain,
                         ctlPacketsWritten, ctlBytesWritten>>
  /\ UNCHANGED <<stopped, ending, finished, destroyed, stopPc, accepted,
                 sinkFailed, failedWrite, frames, dataEvents, lastData, source, packetsReceived,
                 bytesReceived, rxFirstPacketReceived>>

\* waitForWrites has nothing left to wait for
WritesFlushed_NoWait == TRUE

WritesFlushed_QueueOnly == Len(writeQueue) = 0

WritesFlushed == pendingWrites = 0 /\ Len(writeQueue) = 0

\* stopUserRecording(userRecording) on a track that is not stopped yet:
\* controller.stopped is set; when nothing is pending, waitForWrites returns at
\* once and writeStream.end() is called, otherwise the 10 ms polling starts
StopUserRecording ==
  /\ ~stopped
  /\ stopPc = "none"
  /\ stopped' = TRUE
  /\ IF WritesFlushed
     THEN /\ stopPc' = "closing"
          /\ ending' = TRUE
     ELSE /\ stopPc' = "polling"
          /\ ending' = ending
  /\ UNCHANGED <<writeQueue, pendingWrites, isProcessingQueue, workerItem,
                 streamBuffer, needDrain, finished, destroyed, file, promise,
                 accepted, handed, drainWaits, sinkFailed, failedWrite,
                 frames, dataEvents, lastData, source, packetsReceived, bytesReceived,
                 rxFirstPacketReceived, ctlPacketsWritten, ctlBytesWritten>>

\* a poll of waitForWrites finds the writes flushed: processWriteQueue is
\* called with stopped = true (and returns), then writeStream.end() is called
PollDone ==
  /\ stopPc = "polling"
  /\ WritesFlushed
  /\ stopPc' = "closing"
  /\ ending' = TRUE
  /\ UNCHANGED <<writeQueue, pendingWrites, isProcessingQueue, stopped,
                 workerItem, streamBuffer, needDrain, finished, destroyed,
                 file, promise, accepted, handed, drainWaits, sinkFailed,
                 failedWrite, frames, dataEvents, lastData, source, packetsReceived,
                 bytesReceived, rxFirstPacketReceived, ctlPacketsWritten,
                 ctlBytesWritten>>

\* 'finish': the ended stream has flushed everything; the stop promise resolves
Finish ==
  /\ ending /\ ~finished /\ ~destroyed
  /\ streamBuffer = <<>>
  /\ finished' = TRUE
  /\ stopPc' = IF stopPc = "closing" THEN "resolved" ELSE stopPc
  /\ UNCHANGED <<writeQueue, pendingWrites, isProcessingQueue, stopped,
                 workerItem, streamBuffer, needDrain, ending, destroyed, file,
                 promise, accepted, handed, drainWaits, sinkFailed,
                 failedWrite, frames, dataEvents, lastData, source, packetsReceived,
                 bytesReceived, rxFirstPacketReceived, ctlPacketsWritten,
                 ctlBytesWritten>>

\* the 5 s close timeout fires before 'finish': the stream is destroyed, what
\* it still buffers is dropped (the chunk being written may or may not reach
\* the file), and the stop promise resolves
CloseTimeout ==
  /\ stopPc = "closing"
  /\ ~finished
  /\ stopPc' = "resolved"
  /\ destroyed' = TRUE
  /\ streamBuffer' = <<>>
  /\ \E landed \in BOOLEAN :
       file' = IF landed /\ streamBuffer # <<>> /\ ~destroyed
               THEN Append(file, Head(streamBuffer)) ELSE file
  /\ UNCHANGED <<writeQueue, pendingWrites, isProcessingQueue, stopped,
                 workerItem, needDrain, ending, finished, promise, accepted,
                 handed, drainWaits, sinkFailed, failedWrite, frames,
                 dataEvents, lastData, source, packetsReceived, bytesReceived,
                 rxFirstPacketReceived, ctlPacketsWritten, ctlBytesWritten>>

\* the stream emits 'error' (a failed write or open): it stops being writable,
\* its buffered chunks are dropped and no 'drain' or 'finish' follows; a stop
\* that is closing the stream rejects.  failedWrite is the record whose write
\* failed (the chunk the stream was writing), 0 when none was being written.
StreamError ==
  /\ ~destroyed /\ ~finished
  /\ destroyed' = TRUE
  /\ sinkFailed' = TRUE
  /\ failedWrite' = IF streamBuffer # <<>> THEN Head(streamBuffer) ELSE 0
  /\ streamBuffer' = <<>>
  /\ stopPc' = IF stopPc = "closing" THEN "rejected" ELSE stopPc
  /\ UNCHANGED <<writeQueue, pendingWrites, isProcessingQueue, stopped,
                 workerItem, needDrain, ending, finished, file, promise,
                 accepted, handed, drainWaits, frames, dataEvents, lastData, source,
                 packetsReceived, bytesReceived, rxFirstPacketReceived,
                 ctlPacketsWritten, ctlBytesWritten>>

----------------------------------------------------------------------------
\* The writer's pure functions, applied to arguments drawn when the
\* behaviour starts.  Strings and buffers are sequences of bytes.

NoIn == [fn |-> "none"]
NoOut == [fn |-> "none"]
FnIdle == fnIn = NoIn /\ fnOut = NoOut

\* an option of the constructor: absent, or given with a value
Unset == [set |-> FALSE, v |-> 0]
UnsetStr == [set |-> FALSE, v |-> <<>>]
Opt(v) == [set |-> TRUE, v |-> v]

\* options.x || dflt: the default replaces undefined, 0 and ''
OrDefault(opt, dflt) == IF opt.set /\ opt.v # 0 THEN opt.v ELSE dflt
OrDefaultStr(opt, dflt) == IF opt.set /\ opt.v # <<>> THEN opt.v ELSE dflt

\* 'Craig-style Opus Recorder'
DefaultVendorString ==
  <<67, 114, 97, 105, 103, 45, 115, 116, 121, 108, 101, 32, 79, 112, 117,
    115, 32, 82, 101, 99, 111, 114, 100, 101, 114>>

DefaultChannels == 2

\* the fields the constructor sets from its options ([] is truthy)
Constructor(options) ==
  [channels     |-> OrDefault(options.channels, DefaultChannels),
   sampleRate   |-> OrDefault(options.sampleRate, SampleRate),
   preSkip      |-> OrDefault(options.preSkip, 0),
   outputGain   |-> OrDefault(options.outputGain, 0),
   vendorString |-> OrDefaultStr(options.vendorString, DefaultVendorString),
   comments     |-> IF options.comments.set THEN options.comments.v ELSE <<>>]

\* Buffer.writeUInt16LE / writeInt16LE / writeUInt32LE of a value in range
UInt16LE(v) == <<v % 256, v \div 256>>
Int16LE(v) == UInt16LE(IF v < 0 THEN v + 65536 ELSE v)
UInt32LE(v) ==
  <<v % 256, (v \div 256) % 256, (v \div 65536) % 256, v \div 16777216>>

MagicOpusHead == <<79, 112, 117, 115, 72, 101, 97, 100>>
MagicOpusTags == <<79, 112, 117, 115, 84, 97, 103, 115>>

CreateOpusHead(w) ==
  MagicOpusHead \o <<1>> \o <<w.channels>> \o UInt16LE(w.preSkip)
    \o UInt32LE(w.sampleRate) \o Int16LE(w.outputGain) \o <<0>>

RECURSIVE CommentBytes(_)
CommentBytes(comments) ==
  IF comments = <<>> THEN <<>>
  ELSE UInt32LE(Len(Head(comments))) \o Head(comments)
         \o CommentBytes(Tail(comments))

CreateOpusTags(w) ==
  MagicOpusTags \o UInt32LE(Len(w.vendorString)) \o w.vendorString
    \o UInt32LE(Len(w.comments)) \o CommentBytes(w.comments)

\* the two pages init() hands to writeOggPage: header type, segment table
\* and payload of each
HeaderPage(headerType, packet) ==
  [headerType |-> headerType, segments |-> Segments(Len(packet)),
   packet |-> packet]

InitPages(options) ==
  LET w == Constructor(options) IN
  <<HeaderPage(BosHeaderType, CreateOpusHead(w)),
    HeaderPage(ContHeaderType, CreateOpusTags(w))>>

OptionInputs ==
  [channels     : {Unset, Opt(1), Opt(2)},
   sampleRate   : {Unset, Opt(8000), Opt(0)},
   preSkip      : {Unset, Opt(312)},
   outputGain   : {Unset, Opt(-256)},
   vendorString : {UnsetStr, Opt(<<>>), Opt(<<97, 98>>)},
   comments     : {UnsetStr, Opt(<<>>), Opt(<<(<<97, 61, 98>>)>>)}]

InitInputs == {[fn |-> "init", options |-> o] : o \in OptionInputs}

ApplyInit ==
  /\ fnIn.fn = "init" /\ fnOut = NoOut
  /\ fnOut' = [fn |-> "init", pages |-> InitPages(fnIn.options)]
  /\ UNCHANGED fnIn

\* ---- 32-bit unsigned words as two 16-bit limbs, low limb first
RECURSIVE XorBits(_, _, _)
XorBits(a, b, n) ==
  IF n = 0 THEN 0
  ELSE ((a + b) % 2) + 2 * XorBits(a \div 2, b \div 2, n - 1)

\* XOR of two 4-bit values, tabulated, and of two 16-bit values
XorNibble == [a \in 0..15 |-> [b \in 0..15 |-> XorBits(a, b, 4)]]

Xor16(a, b) ==
  XorNibble[a % 16][b % 16]
    + 16 * XorNibble[(a \div 16) % 16][(b \div 16) % 16]
    + 256 * XorNibble[(a \div 256) % 16][(b \div 256) % 16]
    + 4096 * XorNibble[(a \div 4096) % 16][(b \div 4096) % 16]

Xor32(x, y) == <<Xor16(x[1], y[1]), Xor16(x[2], y[2])>>
ShiftRight1(x) == <<(x[1] \div 2) + (x[2] % 2) * 32768, x[2] \div 2>>
ShiftRight8(x) == <<(x[1] \div 256) + (x[2] % 256) * 256, x[2] \div 256>>
WordLE(x) == UInt16LE(x[1]) \o UInt16LE(x[2])

\* 0x04C11DB7
Polynomial == <<7607, 1217>>

\* getCRC32Table: the entry of index i
RECURSIVE TableLoop(_, _)
TableLoop(crc, j) ==
  IF j = 0 THEN crc
  ELSE TableLoop(IF crc[1] % 2 = 1 THEN Xor32(ShiftRight1(crc), Polynomial)
                 ELSE ShiftRight1(crc), j - 1)

GetCRC32Table(i) == TableLoop(<<i, 0>>, 8)

\* calculateOggChecksum: updateCRC over one buffer (crc is never <<>>; the
\* comparison makes TLC evaluate crc before the next byte is taken)
RECURSIVE UpdateCRC(_, _)
UpdateCRC(crc, data) ==
  IF data = <<>> \/ crc = <<>> THEN crc
  ELSE UpdateCRC(Xor32(ShiftRight8(crc),
                       GetCRC32Table(Xor16(crc[1], Head(data)) % 256)),
                 Tail(data))

\* headerForCRC: a copy of the header with writeUInt32LE(0, 22)
ZeroChecksum(header) ==
  SubSeq(header, 1, 22) \o <<0, 0, 0, 0>> \o SubSeq(header, 27, Len(header))

CalculateOggChecksum_NoSegmentTable(header, segmentTable, packet) ==
  UpdateCRC(UpdateCRC(<<0, 0>>, ZeroChecksum(header)), packet)

CalculateOggChecksum(header, segmentTable, packet) ==
  UpdateCRC(UpdateCRC(UpdateCRC(<<0, 0>>, ZeroChecksum(header)),
                      segmentTable), packet)

\* writeOggPage up to the first write: the 27-byte header with its checksum,
\* the segment table and the packet.  The granule position is a number of
\* up to 64 bits, given as four 16-bit limbs; `granulePos & 0xFFFFFFFF` is
\* a signed 32-bit value, which writeUInt32LE refuses when it is negative.
MagicOggS == <<79, 103, 103, 83>>

GranulePosLowNegative(granulePos) == granulePos[2] >= 32768

PageHeader(headerType, granulePos, serialNumber, seq, nsegs, checksum) ==
  MagicOggS \o <<0, headerType>>
    \o WordLE(<<granulePos[1], granulePos[2]>>)
    \o WordLE(<<granulePos[3], granulePos[4]>>)
    \o WordLE(serialNumber) \o WordLE(seq) \o WordLE(checksum) \o <<nsegs>>

RangeError == [fn |-> "writeOggPage", threw |-> TRUE]

\* the packet slices written after the segment table, one per non-empty
\* segment
RECURSIVE PacketSlices(_, _, _)
PacketSlices(packet, segments, packetOffset) ==
  IF segments = <<>> THEN <<>>
  ELSE IF Head(segments) > 0
  THEN <<SubSeq(packet, packetOffset + 1, packetOffset + Head(segments))>>
         \o PacketSlices(packet, Tail(segments),
                         packetOffset + Head(segments))
  ELSE PacketSlices(packet, Tail(segments), packetOffset)

\* pageHeader.writeUInt8(segments.length) accepts 0..255 and throws a
\* RangeError otherwise
FitsUInt8(value) == value >= 0 /\ value <= UInt8Max

WriteOggPageBuffers(packet, headerType, granulePos, serialNumber, seq) ==
  LET segmentTable == Segments(Len(packet))
      pageHeader == PageHeader(headerType, granulePos, serialNumber, seq,
                               Len(segmentTable), <<0, 0>>)
      checksum == CalculateOggChecksum(pageHeader, segmentTable, packet)
  IN  IF GranulePosLowNegative(granulePos) \/ ~FitsUInt8(Len(segmentTable))
      THEN RangeError
      ELSE [fn |-> "writeOggPage", threw |-> FALSE,
            pageHeader |-> PageHeader(headerType, granulePos, serialNumber,
                                      seq, Len(segmentTable), checksum),
            segmentTable |-> segmentTable, packet |-> packet,
            slices |-> PacketSlices(packet, segmentTable, 0)]

\* a packet of 255 * 255 + 1 bytes: one segment more than a page can count
LongPacket == [i \in 1..(MaxSegmentSize * UInt8Max + 1) |-> 0]

PageInputs ==
  [fn : {"writeOggPage"},
   packet : {<<>>, <<1>>, <<83, 255, 0>>},
   headerType : {ContHeaderType, BosHeaderType, EosHeaderType},
   granulePos : {<<0, 0, 0, 0>>, <<960, 0, 0, 0>>, <<0, 32768, 0, 0>>},
   serialNumber : {<<0, 0>>, <<65534, 65535>>},
   seq : {<<0, 0>>, <<1, 0>>, <<0, 1>>}]
  \cup
  [fn : {"writeOggPage"},
   packet : {LongPacket},
   headerType : {ContHeaderType},
   granulePos : {<<960, 0, 0, 0>>},
   serialNumber : {<<0, 0>>},
   seq : {<<2, 0>>}]

ApplyWriteOggPage ==
  /\ fnIn.fn = "writeOggPage" /\ fnOut = NoOut
  /\ fnOut' = WriteOggPageBuffers(fnIn.packet, fnIn.headerType,
                                  fnIn.granulePos, fnIn.serialNumber,
                                  fnIn.seq)
  /\ UNCHANGED fnIn

\* parseOpusTOC as the record it returns, for a writer of the given sample
\* rate (the sample rates drawn are multiples of 100, for which the
\* quotient by 1000 is exact), and the granule position writeOpusPacket
\* derives from it
ParseOpusTOC(tocByte, sampleRate) ==
  [config           |-> TocConfig(tocByte),
   stereo           |-> (tocByte \div 4) % 2 # 0,
   frameCountCode   |-> TocFrameCountCode(tocByte),
   durationMs       |-> Durations[(TocConfig(tocByte) % 4) + 1],
   frameCount       |-> TocFrameCount(tocByte),
   samplesPerFrame  |-> SamplesPerFrameAt(tocByte, sampleRate),
   samplesPerPacket |-> SamplesPerFrameAt(tocByte, sampleRate)
                          * TocFrameCount(tocByte)]

TocInputs ==
  [fn : {"parseOpusTOC"}, tocByte : 0..255, sampleRate : {SampleRate, 8000},
   granulePosition : {0, 960}]

ApplyParseOpusTOC ==
  /\ fnIn.fn = "parseOpusTOC" /\ fnOut = NoOut
  /\ LET tocInfo == ParseOpusTOC(fnIn.tocByte, fnIn.sampleRate)
     IN  fnOut' = [fn |-> "parseOpusTOC", tocInfo |-> tocInfo,
                   granulePosition |->
                     fnIn.granulePosition + tocInfo.samplesPerPacket]
  /\ UNCHANGED fnIn

----------------------------------------------------------------------------
\* validateRawDumpFile(filePath, recordingId, userId).  A file is whether it
\* exists, its bytes, and the call of fs that fails on it, if any.

MinSizeToStat == 6
MinBufferLength == 10
MaxFileSize == 14

\* fileBuffer.readUInt16LE(0)
FrameLengthOf(fileBuffer) == fileBuffer[1] + 256 * fileBuffer[2]

\* 2 bytes length + frameData + 4 bytes timestampLow + 4 bytes timestampHigh
MinSizeForFirstFrame_NoTimestamp(frameLength) == 2 + frameLength

MinSizeForFirstFrame(frameLength) == 2 + frameLength + 8

Invalid == [fn |-> "validateRawDumpFile", threw |-> FALSE, valid |-> FALSE]

\* fs.readFileSync takes no start or end option: the whole file is read
ValidateRawDumpFile(rawFile) ==
  IF ~rawFile.exists THEN Invalid
  ELSE IF rawFile.fails = "statSync" THEN Invalid
  ELSE IF Len(rawFile.bytes) < MinSizeToStat THEN Invalid
  ELSE IF rawFile.fails = "readFileSync" THEN Invalid
  ELSE LET fileBuffer == rawFile.bytes
           frameLength == FrameLengthOf(fileBuffer)
       IN  IF Len(fileBuffer) < MinBufferLength THEN Invalid
           ELSE IF Len(rawFile.bytes) < MinSizeForFirstFrame(frameLength)
           THEN Invalid
           ELSE [fn |-> "validateRawDumpFile", threw |-> FALSE,
                 valid |-> TRUE, fileSize |-> Len(rawFile.bytes),
                 firstFrameLength |-> frameLength]

\* files of up to MaxFileSize bytes: the first two bytes drawn, the rest 7
FileBytes(size, b0, b1) ==
  [i \in 1..size |-> IF i = 1 THEN b0 ELSE IF i = 2 THEN b1 ELSE 7]

FileInputs ==
  {[fn |-> "validateRawDumpFile",
    file |-> [exists |-> e, bytes |-> FileBytes(n, b[1], b[2]), fails |-> f]] :
     e \in BOOLEAN, n \in 0..MaxFileSize,
     b \in {<<0, 0>>, <<1, 0>>, <<3, 0>>, <<4, 0>>, <<5, 0>>, <<0, 1>>},
     f \in {"none", "statSync", "readFileSync"}}

ApplyValidateRawDumpFile ==
  /\ fnIn.fn = "validateRawDumpFile" /\ fnOut = NoOut
  /\ fnOut' = ValidateRawDumpFile(fnIn.file)
  /\ UNCHANGED fnIn

----------------------------------------------------------------------------
\* One recording session with a track per user: subscribeUserOpus,
\* startUserRecording, the tracks' writers, unsubscribeUserOpus and
\* finalizeRecording.  A track's queue and stream are kept as counts of
\* records.

Users == {"u1", "u2"}

\* path.join(recordingDir, `${userId}.raw`)
FilePath_OneFile(userId) == <<"recordingDir", "track.raw">>

FilePath(userId) == <<"recordingDir", userId>>

Paths == {FilePath(u) : u \in Users} \cup {FilePath_OneFile(u) : u \in Users}

\* session.userRecordings[userId] before startUserRecording has run
NoTrack ==
  [controller |-> FALSE, audioStream |-> FALSE, stopped |-> FALSE,
   writeQueue |-> 0, pendingWrites |-> 0, isProcessingQueue |-> FALSE,
   awaitsDrain |-> FALSE, streamBuffer |-> 0, needDrain |-> FALSE,
   ending |-> FALSE, finished |-> FALSE, destroyed |-> FALSE,
   stopPc |-> "none", packetsWritten |-> 0]

SessionInit ==
  /\ tracks = [u \in Users |-> NoTrack]
  /\ files = [p \in Paths |-> 0]
  /\ finalizing = "no"
  /\ awaited = {}
  /\ opened = [u \in Users |-> 0]
  /\ subscribes = 0
  /\ validated = {}
  /\ validatedOpen = {}
  /\ starting = [u \in Users |-> 0]
  /\ orphans = [u \in Users |-> 0]
  /\ orphanBuffer = [u \in Users |-> 0]
  /\ received = [u \in Users |-> 0]
  /\ finalizeRuns = 0
  /\ saved = 0
  /\ notified = 0
  /\ skipped = FALSE

\* writeStream.writable of a track
TrackWritable(t) == ~t.ending /\ ~t.destroyed

\* the stream of the track has finished closing
TrackClosed(t) == t.finished \/ t.destroyed

\* item.resolve(), pendingWrites-- and the statistics callback
TrackResolved(t) ==
  [t EXCEPT !.pendingWrites = @ - 1, !.packetsWritten = @ + 1]

\* the while loop of processWriteQueue on a track
RECURSIVE TrackWorkerLoop(_, _)
TrackWorkerLoop(t, stoppedArg) ==
  IF t.writeQueue > 0 /\ ~stoppedArg /\ TrackWritable(t)
  THEN LET ret == t.streamBuffer + 1 < HighWaterMark
           t1 == [t EXCEPT !.writeQueue = @ - 1, !.streamBuffer = @ + 1,
                           !.needDrain = @ \/ ~ret,
                           !.isProcessingQueue = TRUE]
       IN  IF ~ret THEN [t1 EXCEPT !.awaitsDrain = TRUE]
           ELSE TrackWorkerLoop(TrackResolved(t1), stoppedArg)
  ELSE [t EXCEPT !.isProcessingQueue = FALSE]

TrackProcessWriteQueue(t, stoppedArg) ==
  IF t.isProcessingQueue \/ t.writeQueue = 0 \/ stoppedArg THEN t
  ELSE TrackWorkerLoop(t, stoppedArg)

\* controller.writeQueue(buffer) on a track
TrackWriteQueue(t) ==
  IF t.stopped \/ ~TrackWritable(t) THEN t
  ELSE TrackProcessWriteQueue(
         [t EXCEPT !.writeQueue = @ + 1, !.pendingWrites = @ + 1],
         t.stopped)

TrackWritesFlushed(t) == t.pendingWrites = 0 /\ t.writeQueue = 0

\* stopUserRecording(userRec) up to its first suspension
TrackStop(t) ==
  IF ~t.controller \/ t.stopped THEN t
  ELSE IF TrackWritesFlushed(t)
  THEN [t EXCEPT !.stopped = TRUE, !.stopPc = "closing", !.ending = TRUE]
  ELSE [t EXCEPT !.stopped = TRUE, !.stopPc = "polling"]

\* the stop this call of stopUserRecording awaits is still in progress
StopPending(before, after) == ~before.stopped /\ after.stopped

\* unsubscribeUserOpus(recordingId, userId, session) up to its suspension
TrackUnsubscribe(t) == TrackStop([t EXCEPT !.audioStream = FALSE])

\* activeRecordings still holds the session
SessionActive == finalizing # "deleted"

\* startUserRecording for a user whose session entry has no controller: a
\* new controller on a new write stream (flags 'w'); the caller holds it
\* until its await resumes
StartUserRecording(u) ==
  /\ opened' = [opened EXCEPT ![u] = @ + 1]
  /\ files' = [files EXCEPT ![FilePath(u)] = 0]
  /\ starting' = [starting EXCEPT ![u] = @ + 1]

\* subscribeUserOpus(recordingId, userId, session), for a user who joined or
\* is in the channel when the recording starts, up to its return or to
\* `await startUserRecording(...)`
SubscribeUserOpus(u) ==
  /\ SessionActive
  /\ subscribes < MaxSubscribes
  /\ subscribes' = subscribes + 1
  /\ IF tracks[u].audioStream
     THEN UNCHANGED <<tracks, opened, files, starting>>
     ELSE IF tracks[u].controller
     THEN /\ tracks' = [tracks EXCEPT ![u].audioStream = ~tracks[u].stopped]
          /\ UNCHANGED <<opened, files, starting>>
     ELSE /\ StartUserRecording(u)
          /\ UNCHANGED tracks
  /\ UNCHANGED <<finalizing, awaited, validated, validatedOpen, orphans,
                 orphanBuffer, received, finalizeRuns,
                 saved, notified, skipped>>

\* subscribeUserOpus resumes after the await: the new record is stored in
\* session.userRecordings[userId], replacing a record another call stored
\* meanwhile (whose controller and 'data' handler live on), and the audio
\* stream is subscribed
SubscribeResume(u) ==
  /\ starting[u] > 0
  /\ starting' = [starting EXCEPT ![u] = @ - 1]
  /\ tracks' = [tracks EXCEPT ![u] =
       [NoTrack EXCEPT !.controller = TRUE, !.audioStream = TRUE]]
  /\ orphans' = [orphans EXCEPT ![u] = IF tracks[u].controller THEN @ + 1
                                       ELSE @]
  /\ UNCHANGED <<files, finalizing, awaited, opened, subscribes, validated,
                 validatedOpen, orphanBuffer, received, finalizeRuns,
                 saved, notified, skipped>>

\* a resumed await runs before any stream event or timer is handled
NoResumeDue == \A u \in Users : starting[u] = 0

\* the stream of a controller that is no longer in the session writes a
\* record it received to the file of its user
OrphanFlush(u) ==
  /\ NoResumeDue
  /\ orphanBuffer[u] > 0
  /\ orphanBuffer' = [orphanBuffer EXCEPT ![u] = @ - 1]
  /\ files' = [files EXCEPT ![FilePath(u)] = @ + 1]
  /\ UNCHANGED <<tracks, finalizing, awaited, opened, subscribes, validated,
                 validatedOpen, starting, orphans, received, finalizeRuns,
                 saved, notified, skipped>>

\* audioStream.on('data') of a track: a record is queued
TrackData(u) ==
  /\ NoResumeDue
  /\ tracks[u].audioStream
  /\ received[u] < MaxFrames
  /\ received' = [received EXCEPT ![u] = @ + 1]
  /\ tracks' = [tracks EXCEPT ![u] = TrackWriteQueue(@)]
  /\ orphanBuffer' = [orphanBuffer EXCEPT ![u] = @ + orphans[u]]
  /\ UNCHANGED <<files, finalizing, awaited, opened, subscribes, validated,
                 validatedOpen, starting, orphans, finalizeRuns, saved,
                 notified, skipped>>

\* the stream of a track has written its oldest chunk; 'drain' when the
\* buffer empties after a write that returned false
TrackFlush(u) ==
  LET t == tracks[u] IN
  /\ NoResumeDue
  /\ t.streamBuffer > 0 /\ ~t.destroyed
  /\ files' = [files EXCEPT ![FilePath(u)] = @ + 1]
  /\ tracks' = [tracks EXCEPT ![u] =
       IF t.streamBuffer = 1 /\ t.needDrain /\ ~t.ending
       THEN IF t.awaitsDrain
            THEN TrackWorkerLoop(
                   TrackResolved([t EXCEPT !.streamBuffer = 0,
                                           !.needDrain = FALSE,
                                           !.awaitsDrain = FALSE]), FALSE)
            ELSE [t EXCEPT !.streamBuffer = 0, !.needDrain = FALSE]
       ELSE [t EXCEPT !.streamBuffer = @ - 1]]
  /\ UNCHANGED <<finalizing, awaited, opened, subscribes, validated,
                 validatedOpen, starting, orphans, orphanBuffer,
                 received, finalizeRuns,
                 saved, notified, skipped>>

\* the user left the channel: unsubscribeUserOpus
UnsubscribeUserOpus(u) ==
  /\ SessionActive
  /\ tracks[u].controller
  /\ tracks[u].audioStream \/ ~tracks[u].stopped
  /\ tracks' = [tracks EXCEPT ![u] = TrackUnsubscribe(@)]
  /\ UNCHANGED <<files, finalizing, awaited, opened, subscribes, validated,
                 validatedOpen, starting, orphans, orphanBuffer,
                 received, finalizeRuns,
                 saved, notified, skipped>>

\* the validation loop of finalizeRecording: the file of every track is
\* inspected (existsSync, statSync) as soon as Promise.all has resolved
ValidateFiles(ts) ==
  /\ finalizing' = "validated"
  /\ validated' = {u \in Users : ts[u].controller}
  /\ validatedOpen' = {u \in Users : ts[u].controller /\ ~TrackClosed(ts[u])}

\* a stop has settled: finalizeRecording goes on when it was the last one
\* it waited for
StopSettled(ts) ==
  IF finalizing = "stopping"
     /\ \A u \in awaited : ts[u].stopPc \in {"resolved", "rejected"}
  THEN ValidateFiles(ts)
  ELSE UNCHANGED <<finalizing, validated, validatedOpen>>

\* a poll of waitForWrites of a stopping track finds the writes flushed
TrackPollDone(u) ==
  /\ NoResumeDue
  /\ tracks[u].stopPc = "polling"
  /\ TrackWritesFlushed(tracks[u])
  /\ tracks' = [tracks EXCEPT ![u].stopPc = "closing", ![u].ending = TRUE]
  /\ UNCHANGED <<files, finalizing, awaited, opened, subscribes, validated,
                 validatedOpen, starting, orphans, orphanBuffer,
                 received, finalizeRuns,
                 saved, notified, skipped>>

\* 'finish' of a track's stream
TrackFinish(u) ==
  LET t == tracks[u] IN
  /\ NoResumeDue
  /\ t.ending /\ ~t.finished /\ ~t.destroyed /\ t.streamBuffer = 0
  /\ tracks' = [tracks EXCEPT ![u].finished = TRUE,
                              ![u].stopPc = IF @ = "closing" THEN "resolved"
                                            ELSE @]
  /\ StopSettled(tracks')
  /\ UNCHANGED <<files, awaited, opened, subscribes, starting, orphans,
                 orphanBuffer, received, finalizeRuns,
                 saved, notified, skipped>>

\* the 5 s close timeout of a track
TrackCloseTimeout(u) ==
  LET t == tracks[u] IN
  /\ NoResumeDue
  /\ t.stopPc = "closing" /\ ~t.finished
  /\ tracks' = [tracks EXCEPT ![u].stopPc = "resolved",
                              ![u].destroyed = TRUE,
                              ![u].streamBuffer = 0]
  /\ \E landed \in BOOLEAN :
       files' = IF landed /\ t.streamBuffer > 0 /\ ~t.destroyed
                THEN [files EXCEPT ![FilePath(u)] = @ + 1] ELSE files
  /\ StopSettled(tracks')
  /\ UNCHANGED <<awaited, opened, subscribes, starting, orphans,
                 orphanBuffer, received, finalizeRuns,
                 saved, notified, skipped>>

\* 'error' of a track's stream
TrackStreamError(u) ==
  LET t == tracks[u] IN
  /\ NoResumeDue
  /\ t.controller /\ ~t.destroyed /\ ~t.finished
  /\ tracks' = [tracks EXCEPT ![u].destroyed = TRUE,
                              ![u].streamBuffer = 0,
                              ![u].stopPc = IF @ = "closing" THEN "rejected"
                                            ELSE @]
  /\ StopSettled(tracks')
  /\ UNCHANGED <<files, awaited, opened, subscribes, starting, orphans,
                 orphanBuffer, received, finalizeRuns,
                 saved, notified, skipped>>

\* the guard of finalizeRecording: no session, or session._finalizing ||
\* session._finalized
AlreadyFinalizing_FinalizedOnly == finalizing \in {"cleanup", "deleted"}

AlreadyFinalizing == finalizing # "no"

\* finalizeRecording for a session that is not being finalized: every track
\* is unsubscribed or stopped; a call that returns at once leaves nothing to
\* wait for, and with nothing to wait for
\* `await Promise.all(unsubscribePromises)` resumes before any other event
FinalizeRecording ==
  /\ ~AlreadyFinalizing
  /\ finalizeRuns' = finalizeRuns + 1
  /\ tracks' = [u \in Users |->
       IF ~tracks[u].controller THEN tracks[u]
       ELSE IF tracks[u].audioStream THEN TrackUnsubscribe(tracks[u])
       ELSE TrackStop(tracks[u])]
  /\ awaited' = {u \in Users : StopPending(tracks[u], tracks'[u])}
  /\ IF awaited' = {} THEN ValidateFiles(tracks')
     ELSE /\ finalizing' = "stopping"
          /\ UNCHANGED <<validated, validatedOpen>>
  /\ UNCHANGED <<files, opened, subscribes, starting, orphans,
                 orphanBuffer, received, saved, notified, skipped>>

\* finalizeRecording for a session that is being or has been finalized, or
\* is no longer in activeRecordings: the call returns
FinalizeSkipped ==
  /\ AlreadyFinalizing
  /\ skipped' = TRUE
  /\ UNCHANGED <<tracks, files, finalizing, awaited, opened, subscribes,
                 validated, validatedOpen, starting, orphans, orphanBuffer,
                 received, finalizeRuns, saved, notified>>

\* finalizeRecording after its 500 ms wait: unless the metadata says the
\* recording was notified, the recording is saved and notifyStaffRecording
\* is called; when loadMetadata or saveMetadata throws, the catch block goes
\* to cleanupRecording
FinalizeSave ==
  /\ NoResumeDue
  /\ finalizing = "validated"
  /\ \E threw \in BOOLEAN :
       IF threw \/ notified > 0
       THEN finalizing' = "cleanup" /\ saved' = saved /\ awaited' = {}
       ELSE finalizing' = "notifying" /\ saved' = saved + 1
            /\ awaited' = awaited
  /\ UNCHANGED <<tracks, files, opened, subscribes, validated,
                 validatedOpen, starting, orphans, orphanBuffer, received,
                 finalizeRuns, notified, skipped>>

\* notifyStaffRecording has returned: session._finalized = true and
\* cleanupRecording starts
FinalizeNotified ==
  /\ NoResumeDue
  /\ finalizing = "notifying"
  /\ finalizing' = "cleanup"
  /\ notified' = notified + 1
  /\ awaited' = {}
  /\ UNCHANGED <<tracks, files, opened, subscribes, validated, validatedOpen,
                 starting, orphans, orphanBuffer, received, finalizeRuns,
                 saved, skipped>>

\* cleanupRecording: the tracks are stopped one after the other, each stop
\* awaited, then the session is deleted from activeRecordings
CleanupRecording ==
  /\ NoResumeDue
  /\ finalizing = "cleanup"
  /\ \A u \in awaited : tracks[u].stopPc \in {"resolved", "rejected"}
  /\ IF \E u \in Users : tracks[u].controller /\ ~tracks[u].stopped
     THEN \E u \in Users :
            /\ tracks[u].controller /\ ~tracks[u].stopped
            /\ tracks' = [tracks EXCEPT ![u] = TrackStop(@)]
            /\ awaited' = {u}
            /\ UNCHANGED finalizing
     ELSE /\ finalizing' = "deleted"
          /\ awaited' = {}
          /\ UNCHANGED tracks
  /\ UNCHANGED <<files, opened, subscribes, validated, validatedOpen,
                 starting, orphans, orphanBuffer, received, finalizeRuns,
                 saved, notified, skipped>>

----------------------------------------------------------------------------
Init == OggInit /\ RawInit /\ FnIdle /\ SessionInit

\* The container writer: calls made on one OggWriter and the completions of
\* the sink operations they await.  writeOpusPacket may be called while
\* earlier writeOpusPacket calls are still pending (fire-and-forget); init and
\* finalize are called with no call pending.
Next ==
  \/ CallInit /\ UNCHANGED <<rawVars, fnVars, sessVars>>
  \/ \E p \in PacketInputs : CallWrite(p) /\ UNCHANGED <<rawVars, fnVars, sessVars>>
  \/ CallFinalize /\ UNCHANGED <<rawVars, fnVars, sessVars>>
  \/ \E c \in inflight : OpenDone(c) /\ UNCHANGED <<rawVars, fnVars, sessVars>>
  \/ \E c \in inflight : OpenFail(c) /\ UNCHANGED <<rawVars, fnVars, sessVars>>
  \/ \E c \in inflight : PageWriteDone(c) /\ UNCHANGED <<rawVars, fnVars, sessVars>>
  \/ \E c \in inflight : PageDone(c) /\ UNCHANGED <<rawVars, fnVars, sessVars>>
  \/ \E c \in inflight : PageWriteFail(c) /\ UNCHANGED <<rawVars, fnVars, sessVars>>
  \/ \E c \in inflight : SyncDone(c) /\ UNCHANGED <<rawVars, fnVars, sessVars>>
  \/ \E c \in inflight : SyncFail(c) /\ UNCHANGED <<rawVars, fnVars, sessVars>>
  \/ \E c \in inflight : CloseDone(c) /\ UNCHANGED <<rawVars, fnVars, sessVars>>
  \/ \E c \in inflight : CloseFail(c) /\ UNCHANGED <<rawVars, fnVars, sessVars>>

Spec == Init /\ [][Next]_vars

\* The raw-dump writer of one track: enqueues, the stream's progress and the
\* stop path
NextRaw ==
  \/ WriteQueue /\ UNCHANGED <<oggVars, fnVars, sessVars>>
  \/ \E e \in DataEvents : OnData(e.packet, e.now) /\ UNCHANGED <<oggVars, fnVars, sessVars>>
  \/ SinkFlush /\ UNCHANGED <<oggVars, fnVars, sessVars>>
  \/ StopUserRecording /\ UNCHANGED <<oggVars, fnVars, sessVars>>
  \/ PollDone /\ UNCHANGED <<oggVars, fnVars, sessVars>>
  \/ Finish /\ UNCHANGED <<oggVars, fnVars, sessVars>>
  \/ CloseTimeout /\ UNCHANGED <<oggVars, fnVars, sessVars>>
  \/ StreamError /\ UNCHANGED <<oggVars, fnVars, sessVars>>

SpecRaw == Init /\ [][NextRaw]_vars

\* The same with the scheduling the event loop guarantees: a stream that can
\* write does write, a due poll of waitForWrites runs, and an ended stream
\* that has flushed emits 'finish'.  A sink error stays possible, not certain.
SpecRawFair ==
  /\ SpecRaw
  /\ WF_vars(SinkFlush /\ UNCHANGED <<oggVars, fnVars, sessVars>>)
  /\ WF_vars(PollDone /\ UNCHANGED <<oggVars, fnVars, sessVars>>)
  /\ WF_vars(Finish /\ UNCHANGED <<oggVars, fnVars, sessVars>>)

\* The same, and the 5 s close timer of stopUserRecording fires when it is
\* still armed
SpecRawFairTimers ==
  /\ SpecRawFair
  /\ WF_vars(CloseTimeout /\ UNCHANGED <<oggVars, fnVars, sessVars>>)

\* The pure functions: one application per behaviour, the arguments drawn
\* at the start
FnInputs == InitInputs \cup PageInputs \cup TocInputs \cup FileInputs

InitFn ==
  OggInit /\ RawInit /\ SessionInit /\ fnIn \in FnInputs /\ fnOut = NoOut

NextFn ==
  \/ ApplyInit /\ UNCHANGED <<oggVars, rawVars, sessVars>>
  \/ ApplyWriteOggPage /\ UNCHANGED <<oggVars, rawVars, sessVars>>
  \/ ApplyParseOpusTOC /\ UNCHANGED <<oggVars, rawVars, sessVars>>
  \/ ApplyValidateRawDumpFile /\ UNCHANGED <<oggVars, rawVars, sessVars>>

SpecFn == InitFn /\ [][NextFn]_vars

\* The recording session: users join and leave, their tracks are written
\* and the recording is finalized
NextSession ==
  \/ \E u \in Users : SubscribeUserOpus(u) /\ UNCHANGED <<oggVars, rawVars, fnVars>>
  \/ \E u \in Users : SubscribeResume(u) /\ UNCHANGED <<oggVars, rawVars, fnVars>>
  \/ \E u \in Users : OrphanFlush(u) /\ UNCHANGED <<oggVars, rawVars, fnVars>>
  \/ \E u \in Users : TrackData(u) /\ UNCHANGED <<oggVars, rawVars, fnVars>>
  \/ \E u \in Users : TrackFlush(u) /\ UNCHANGED <<oggVars, rawVars, fnVars>>
  \/ \E u \in Users : UnsubscribeUserOpus(u) /\ UNCHANGED <<oggVars, rawVars, fnVars>>
  \/ \E u \in Users : TrackPollDone(u) /\ UNCHANGED <<oggVars, rawVars, fnVars>>
  \/ \E u \in Users : TrackFinish(u) /\ UNCHANGED <<oggVars, rawVars, fnVars>>
  \/ \E u \in Users : TrackCloseTimeout(u) /\ UNCHANGED <<oggVars, rawVars, fnVars>>
  \/ \E u \in Users : TrackStreamError(u) /\ UNCHANGED <<oggVars, rawVars, fnVars>>
  \/ FinalizeRecording /\ UNCHANGED <<oggVars, rawVars, fnVars>>

SpecSession == Init /\ [][NextSession]_vars

\* The same session followed through the rest of finalizeRecording, with
\* finalizeRecording invoked again at any moment (both users have left
\* again, the voice connection was disconnected)
NextFinalize ==
  \/ NextSession
  \/ FinalizeSkipped /\ UNCHANGED <<oggVars, rawVars, fnVars>>
  \/ FinalizeSave /\ UNCHANGED <<oggVars, rawVars, fnVars>>
  \/ FinalizeNotified /\ UNCHANGED <<oggVars, rawVars, fnVars>>
  \/ CleanupRecording /\ UNCHANGED <<oggVars, rawVars, fnVars>>

SpecFinalize == Init /\ [][NextFinalize]_vars

----------------------------------------------------------------------------
\* Reading the file back

\* The pages of a chunk sequence: each page is a header, its segment table and
\* the payload slices of its non-empty segments, in that order.  A chunk that
\* does not continue the page before it ends the reading with BadPage.
BadPage == [pg |-> 0, call |-> 0, headerType |-> -1, granule |-> -1,
            seq |-> -1, table |-> <<>>, len |-> -1]

NonZero(t) == SelectSeq(t, LAMBDA x : x > 0)

PayloadOk(s, pg, sizes) ==
  /\ Len(s) >= Len(sizes)
  /\ \A i \in 1..Len(sizes) :
       /\ s[i].kind = "pay" /\ s[i].pg = pg /\ s[i].size = sizes[i]
       /\ s[i].off = SumSeq(SubSeq(sizes, 1, i - 1))

RECURSIVE ParsePages(_)
ParsePages(s) ==
  IF s = <<>> THEN <<>>
  ELSE IF /\ Len(s) >= 2
          /\ s[1].kind = "hdr" /\ s[2].kind = "seg" /\ s[2].pg = s[1].pg
          /\ s[1].nsegs = Len(s[2].table)
          /\ PayloadOk(SubSeq(s, 3, Len(s)), s[1].pg, NonZero(s[2].table))
       THEN <<[pg |-> s[1].pg, call |-> s[1].call,
               headerType |-> s[1].headerType, granule |-> s[1].granule,
               seq |-> s[1].seq, table |-> s[2].table,
               len |-> SumSeq(s[2].table)]>>
            \o ParsePages(SubSeq(s, 3 + Len(NonZero(s[2].table)), Len(s)))
       ELSE <<BadPage>>

\* The pages all of whose chunks are in the file
ChunksOf(pg) == {i \in 1..Len(sink) : sink[i].pg = pg}

HeaderAt(i) == sink[i].kind = "hdr"

CompleteHeaders ==
  {i \in 1..Len(sink) :
     /\ HeaderAt(i)
     /\ \E t \in ChunksOf(sink[i].pg) : sink[t].kind = "seg"
     /\ \A k \in 1..Len(NonZero(Segments(sink[i].len))) :
          \E t \in ChunksOf(sink[i].pg) :
            sink[t].kind = "pay"
            /\ sink[t].off = SumSeq(SubSeq(NonZero(Segments(sink[i].len)), 1, k - 1))}

\* What the calls made so far were
Calls == 1..Len(log)

InitOk(i) == log[i].op = "init" /\ log[i].res = "ok"

FinalizeOk(i) == log[i].op = "finalize" /\ log[i].res = "ok"

ValidWrite(i) == log[i].op = "write" /\ log[i].pkt.isBuffer /\ log[i].pkt.len > 0

InvalidWrite(i) ==
  log[i].op = "write" /\ (~log[i].pkt.isBuffer \/ log[i].pkt.len = 0)

NoIoError == \A i \in Calls : log[i].res # "ioerr"

\* The last successful init before call i (0: none)
LastInitBefore(i) ==
  LET S == {j \in 1..(i - 1) : InitOk(j)}
  IN  IF S = {} THEN 0 ELSE CHOOSE j \in S : \A k \in S : k <= j

\* Sum of samplesPerPacket of the valid packets passed by calls a..b
RECURSIVE SamplesOfCalls(_, _)
SamplesOfCalls(a, b) ==
  IF a > b THEN 0
  ELSE (IF ValidWrite(b) THEN SamplesPerPacket(log[b].pkt.toc) ELSE 0)
       + SamplesOfCalls(a, b - 1)

----------------------------------------------------------------------------
\* C1: for any sequence of writeOpusPacket calls on an initialized writer,
\* fire-and-forget calls included, the sink receives the pages in call order
\* and the header, segment table and payload of each page are contiguous: no
\* chunk of an earlier page follows a chunk of a later page.
C1_PagesContiguousInCallOrder ==
  NoIoError =>
    \A i, j \in 1..Len(sink) : i < j => sink[i].pg <= sink[j].pg

\* C2: for one track, records enqueued through controller.writeQueue as
\* P1..Pn, in any burst pattern and with any number of backpressure waits, are
\* each handed to the write stream exactly once and in the order P1..Pn, none
\* skipped, duplicated or left behind, as long as the sink does not fail.
C2_HandedInOrderExactlyOnce ==
  ~sinkFailed =>
    /\ accepted = handed \o writeQueue
    /\ \A i, j \in 1..Len(handed) : i # j => handed[i] # handed[j]
    /\ ~isProcessingQueue => writeQueue = <<>>

C2_Witness ==
  /\ ~sinkFailed
  /\ drainWaits >= 2
  /\ Len(handed) >= 4
  /\ handed = accepted

\* C3: after init() succeeds, k >= 0 awaited writeOpusPacket calls succeed and
\* finalize() succeeds, the sink holds exactly k+3 pages: OpusHead (0x02),
\* OpusTags (0x00), one data page (0x00) per packet in call order, and one
\* final page with empty payload and header type 0x04.
\* A clean run: the last call is a successful finalize, and between it and the
\* last successful init there are only awaited writeOpusPacket calls that
\* returned normally.
CleanRun ==
  /\ Len(log) >= 2
  /\ FinalizeOk(Len(log))
  /\ LastInitBefore(Len(log)) # 0
  /\ \A i \in (LastInitBefore(Len(log)) + 1)..(Len(log) - 1) :
       log[i].op = "write" /\ log[i].res \in {"ok", "noop"} /\ ~log[i].conc

\* The calls of the clean run that carried a valid packet, in call order
RECURSIVE ValidWritesIn(_, _)
ValidWritesIn(a, b) ==
  IF a > b THEN <<>>
  ELSE ValidWritesIn(a, b - 1) \o (IF ValidWrite(b) THEN <<b>> ELSE <<>>)

C4_GranuleIsSumSinceInit ==
  /\ \A i \in 1..Len(sink) :
       HeaderAt(i) =>
         LET c == sink[i].call IN
         IF log[c].op = "init" THEN sink[i].granule = 0
         ELSE sink[i].granule = SamplesOfCalls(LastInitBefore(c) + 1, c)
  /\ \A i, j \in 1..Len(sink) :
       (HeaderAt(i) /\ HeaderAt(j) /\ i < j /\ sink[i].pg < sink[j].pg)
         => sink[i].granule <= sink[j].granule

\* C5: every page is stamped with a sequence number equal to the number of
\* pages emitted before it, so no two pages in the sink carry the same
\* sequence number and the numbers have no gaps.
C5_SequenceNumbersDistinctNoGaps ==
  LET N == {sink[i].seq : i \in CompleteHeaders} IN
  NoIoError =>
  /\ \A i, j \in CompleteHeaders : i # j => sink[i].seq # sink[j].seq
  /\ \A a, b \in N : \A m \in a..b : m \in N

\* C6: the segment table of a packet of length L > 0 is floor(L/255) entries
\* of 255 followed by one final entry L mod 255 (a terminating 0 when L is an
\* exact multiple of 255); an empty packet gives [0].
LacingTable(L) ==
  [i \in 1..((L \div 255) + 1) |-> IF i <= L \div 255 THEN 255 ELSE L % 255]

C6_SegmentTableIsLacingTable ==
  NoIoError => \A i \in 1..Len(sink) :
    sink[i].kind = "seg" => sink[i].table = LacingTable(sink[i].len)

\* C7: a writeOpusPacket call with a valid packet made before init() has
\* succeeded, or after finalize() has completed, ends in an error and puts no
\* bytes in the sink.
OutsideLifecycle(i) ==
  \/ \A j \in 1..(i - 1) : ~InitOk(j)
  \/ \E j \in 1..(i - 1) :
       FinalizeOk(j) /\ \A m \in (j + 1)..(i - 1) : log[m].op # "init"

C7_WriteOutsideLifecycleFails ==
  \A i \in Calls :
    (ValidWrite(i) /\ OutsideLifecycle(i)) =>
      /\ log[i].res \in {"pending", "err", "ioerr"}
      /\ \A t \in 1..Len(sink) : sink[t].call # i

\* C8: after finalize() has completed successfully, a second finalize() call
\* fails with an error, adds no page to the sink and does not change the
\* counters.
Finalized ==
  \E j \in Calls : FinalizeOk(j) /\ \A m \in (j + 1)..Len(log) : log[m].op # "init"

C8_SecondFinalizeFails ==
  [][(Finalized /\ Len(log') = Len(log) + 1 /\ log'[Len(log')].op = "finalize")
       => /\ log'[Len(log')].res = "err"
          /\ inflight' = inflight
          /\ UNCHANGED <<sink, bytesWritten, packetsWritten, granulePosition,
                         pageSequenceNumber>>]_vars

C8_Witness ==
  \E i, j \in Calls :
    /\ i < j /\ FinalizeOk(i)
    /\ log[j].op = "finalize" /\ log[j].res = "err"
    /\ \A m \in (i + 1)..j : log[m].op # "init"

\* C9: over any sequence of calls, calls that fail on I/O and are repeated
\* included, at most one page with zero-length payload (segment count 1,
\* segment value 0) is ever written, and it carries header type 0x04.
EmptyPages == {i \in 1..Len(sink) : sink[i].kind = "seg" /\ sink[i].table = <<0>>}

C9_AtMostOneEmptyPage ==
  (\A i \in Calls : log[i].op = "init" => InitOk(i)) =>
  /\ Cardinality(EmptyPages) <= 1
  /\ \A i \in EmptyPages : sink[i].headerType = 4

\* C10: writeOpusPacket with a zero-length buffer or a value that is not a
\* byte buffer returns without error and is a no-op in every writer state: no
\* page is emitted and the counters are unchanged.
C10_InvalidPacketIsNoOp ==
  [][(/\ Len(log') = Len(log) + 1
      /\ log'[Len(log')].op = "write"
      /\ (~log'[Len(log')].pkt.isBuffer \/ log'[Len(log')].pkt.len = 0))
       => /\ log'[Len(log')].res = "noop"
          /\ inflight' = inflight
          /\ UNCHANGED <<sink, pageSequenceNumber, granulePosition,
                         packetsWritten, bytesWritten>>]_vars

C10_Witness ==
  /\ \E i \in Calls : log[i].pkt = Buf(0, 0) /\ log[i].res = "noop"
                      /\ \E j \in 1..(i - 1) : InitOk(j)
  /\ \E i \in Calls : log[i].pkt = NotABuffer /\ log[i].res = "noop"
  /\ sink # <<>>

\* C11: when an open, write, sync or close of the sink fails during init(),
\* writeOpusPacket() or finalize(), that call ends in an error delivered to
\* its caller and the failed operation is not retried: a call has at most one
\* failed sink operation, it is over once that operation failed, and no part
\* of a page is written twice by the same call.
C11_SinkFailureEndsTheCall ==
  /\ \A i \in Calls :
       log[i].failed >= 1 =>
         /\ log[i].failed = 1
         /\ log[i].res = "ioerr"
         /\ \A c \in inflight : c.id # i
  /\ \A s, t \in 1..Len(sink) :
       (s # t /\ sink[s].call = sink[t].call /\ sink[s].pg = sink[t].pg)
         => <<sink[s].kind, sink[s].off>> # <<sink[t].kind, sink[t].off>>

C11_Witness ==
  /\ \E i \in Calls : log[i].op = "init" /\ log[i].failed = 1
  /\ \E i \in Calls : log[i].op = "write" /\ log[i].failed = 1
  /\ \E i \in Calls : log[i].op = "finalize" /\ log[i].failed = 1

----------------------------------------------------------------------------
\* Reading a raw-dump file back: a bare sequence of records
\* [u16 length][payload][u32 timestampLow][u32 timestampHigh], little-endian,
\* decoded one after the other until the end; timestamp = low + high * 2^32.

\* the bytes of a sequence of records, as the file holds them
RECURSIVE BytesOf(_)
BytesOf(ids) ==
  IF ids = <<>> THEN <<>>
  ELSE frames[Head(ids)].buffer \o BytesOf(Tail(ids))

\* what a reader reports where no complete record can be read
Truncated == [bytes |-> [n |-> -1, toc |-> -1], timestamp |-> <<>>]

ReadUInt16LE(b0, b1) == b0.v + 256 * b1.v

RECURSIVE ReadRecords(_)
ReadRecords(bytes) ==
  IF bytes = <<>> THEN <<>>
  ELSE IF Len(bytes) < 2 \/ bytes[1].kind # "byte" \/ bytes[2].kind # "byte"
  THEN <<Truncated>>
  ELSE
    LET frameLength == ReadUInt16LE(bytes[1], bytes[2])
        p == IF frameLength = 0 THEN 0 ELSE 1
        t == 2 + p
    IN  IF \/ Len(bytes) < t + 8
           \/ (p = 1 /\ (bytes[3].kind # "bytes" \/ bytes[3].n # frameLength))
           \/ \E k \in 1..8 : bytes[t + k].kind # "byte"
        THEN <<Truncated>>
        ELSE <<[bytes |-> IF p = 1 THEN [n |-> bytes[3].n, toc |-> bytes[3].v]
                          ELSE [n |-> 0, toc |-> 0],
                timestamp |->
                  <<ReadUInt16LE(bytes[t + 1], bytes[t + 2]),
                    ReadUInt16LE(bytes[t + 3], bytes[t + 4]),
                    ReadUInt16LE(bytes[t + 5], bytes[t + 6]),
                    ReadUInt16LE(bytes[t + 7], bytes[t + 8])>>]>>
             \o ReadRecords(SubSeq(bytes, t + 9, Len(bytes)))

\* A buffer that is exactly one record: the length prefix, as many payload
\* bytes as it announces, and the 8 timestamp bytes (the size test of
\* validateRawDumpFile, applied to one buffer)
CompleteRecord(buffer) ==
  /\ Len(buffer) >= 2
  /\ buffer[1].kind = "byte" /\ buffer[2].kind = "byte"
  /\ FrameSize(buffer) = 2 + ReadUInt16LE(buffer[1], buffer[2]) + 8

\* the (bytes, timestamp) pairs that were framed for a sequence of records
RECURSIVE PairsOf(_)
PairsOf(ids) ==
  IF ids = <<>> THEN <<>>
  ELSE <<[bytes |-> [n |-> source[Head(ids)].pkt.len,
                     toc |-> source[Head(ids)].pkt.toc],
          timestamp |-> source[Head(ids)].ts]>> \o PairsOf(Tail(ids))

Enqueues == 1..Len(promise)

OnFile(i) == \E k \in 1..Len(file) : file[k] = i

----------------------------------------------------------------------------
\* C12: when the write of one queued buffer fails, the promise of that enqueue
\* is rejected and the worker stops: no buffer queued behind the failed one is
\* handed to the sink afterwards.
C12_FailedWriteRejectsItsEnqueue ==
  /\ [](failedWrite # 0 => promise[failedWrite] = "rejected")
  /\ [][sinkFailed => handed' = handed]_vars

\* C13: every controller.writeQueue call's promise is eventually resolved or
\* rejected, also when the sink errors or stops being writable while buffers
\* are queued or the worker waits for 'drain'.
C13_EveryEnqueueSettles ==
  \A i \in 1..MaxRecords :
    (Len(promise) >= i /\ promise[i] = "pending")
      ~> (Len(promise) >= i /\ promise[i] # "pending")

\* C14: a record whose enqueue promise was resolved is in the file once the
\* track is closed, also when the close ends by timeout and destroys the
\* stream.
C14_ResolvedRecordsAreOnFile ==
  (stopPc = "resolved" /\ ~sinkFailed) =>
    \A i \in Enqueues : promise[i] = "resolved" => OnFile(i)

\* C15: once the track is stopped, controller.writeQueue rejects its promise
\* without adding to the queue or changing pendingWrites, and the 'data'
\* handler writes nothing for a packet that arrives after the stop.
C15_StoppedTrackRefusesEnqueues ==
  [][stopped =>
       /\ Len(promise') = Len(promise) + 1
            => /\ promise'[Len(promise')] = "rejected"
               /\ UNCHANGED <<writeQueue, pendingWrites, accepted, handed,
                              streamBuffer>>
       /\ dataEvents' = dataEvents + 1
            => /\ lastData'.out # "queued"
               /\ UNCHANGED <<writeQueue, pendingWrites, accepted, handed,
                              streamBuffer, promise, frames>>]_vars

C15_Witness ==
  /\ stopPc = "polling" /\ ~sinkFailed
  /\ \E i \in Enqueues : promise[i] = "rejected"
  /\ lastData.out = "refused" /\ lastData.pkt = Buf(1, 1)

\* C16: writeStream.end() is called only when every buffer queued before the
\* stop has been handed to the sink (queue empty, pendingWrites = 0), and no
\* stream.write is issued after end().
C16_EndOnlyAfterDrain ==
  /\ [](ending => /\ writeQueue = <<>>
                  /\ pendingWrites = 0
                  /\ handed = accepted)
  /\ [][ending => handed' = handed]_vars

C16_Witness ==
  /\ ending /\ ~sinkFailed
  /\ drainWaits >= 1
  /\ Len(handed) >= 3

\* C17: a packet of length 0 or of length above 65535 that reaches the 'data'
\* handler is skipped: nothing is handed to the sink or queued for it, the
\* handler returns normally, and the records of valid packets are still
\* written in arrival order.
C17_BadLengthIsSkipped ==
  /\ [][(/\ dataEvents' = dataEvents + 1
         /\ lastData'.pkt.isBuffer
         /\ (lastData'.pkt.len = 0 \/ lastData'.pkt.len > 65535))
          => /\ lastData'.out = "skipped"
             /\ UNCHANGED <<writeQueue, pendingWrites, accepted, handed,
                            streamBuffer, file, promise, frames>>]_vars
  /\ [](\A a, b \in 1..Len(handed) : a < b => handed[a] < handed[b])
  /\ [](\A i \in 1..Len(source) :
          source[i].pkt.len >= 1 /\ source[i].pkt.len <= 65535)

C17_Witness ==
  /\ bytesReceived >= 70000
  /\ lastData.out = "queued" /\ OnFile(lastData.call)
  /\ Len(file) >= 2
  /\ ~sinkFailed

\* C18: the records in the file decode, read sequentially, to the (bytes,
\* timestamp) pairs that were framed, in the same order; the two timestamp
\* words fit in 32 bits and low + high * 2^32 is the timestamp.
C18_RawDumpRoundTrip ==
  /\ ReadRecords(BytesOf(file)) = PairsOf(file)
  /\ ReadRecords(BytesOf(accepted)) = PairsOf(accepted)
  /\ \A i \in 1..Len(source) :
       /\ FitsUInt32(TimestampLow(source[i].ts))
       /\ FitsUInt32(TimestampHigh(source[i].ts))
       /\ TimestampLow(source[i].ts) \o TimestampHigh(source[i].ts)
            = source[i].ts

C18_Witness ==
  /\ file = accepted /\ Len(file) >= 3
  /\ \E k \in 1..Len(file) : source[file[k]].pkt.len = 65535
  /\ \E k \in 1..Len(file) : source[file[k]].ts[1] = 65535
  /\ ~sinkFailed

\* C19: each record is handed to the sink as one buffer in one stream.write
\* call, so the bytes handed to the sink are at every moment a concatenation of
\* complete records, also under backpressure.
C19_WholeRecordsOnly ==
  /\ \A k \in 1..Len(handed) : CompleteRecord(frames[handed[k]].buffer)
  /\ \A k \in 1..Len(streamBuffer) :
       CompleteRecord(frames[streamBuffer[k]].buffer)
  /\ Len(handed) = Len(accepted) - Len(writeQueue)

C19_Witness ==
  /\ drainWaits >= 1
  /\ Len(handed) >= 3
  /\ \E k \in 1..Len(handed) : frames[handed[k]].stats
  /\ streamBuffer # <<>>

\* C20: whenever the promise of controller.waitForWrites resolves, the write
\* queue is empty, pendingWrites is 0 and every enqueue issued before the call
\* has had its promise resolved or rejected.
C20_WaitForWritesIsABarrier ==
  stopPc \in {"closing", "resolved", "rejected"} =>
    /\ writeQueue = <<>>
    /\ pendingWrites = 0
    /\ \A i \in Enqueues : promise[i] # "pending"

C20_Witness ==
  /\ stopPc = "closing"
  /\ drainWaits >= 1
  /\ Len(accepted) >= 3
  /\ \A i \in Enqueues : promise[i] = "resolved"

\* C21: finalize() returns {bytesWritten, packetsWritten, granulePosition}:
\* packetsWritten is the number of audio packets whose data page was emitted,
\* granulePosition the sum of samplesPerPacket of those packets, bytesWritten
\* the total number of bytes written to the sink (27 + segment count + payload
\* length over all emitted pages, header and end-of-stream pages included).
DataPagesInSink == {i \in CompleteHeaders : log[sink[i].call].op = "write"}

RECURSIVE SamplesOfPages(_)
SamplesOfPages(k) ==
  IF k = 0 THEN 0
  ELSE SamplesOfPages(k - 1)
         + (IF k \in DataPagesInSink
            THEN SamplesPerPacket(log[sink[k].call].pkt.toc) ELSE 0)

RECURSIVE BytesInSink(_)
BytesInSink(k) == IF k = 0 THEN 0 ELSE BytesInSink(k - 1) + sink[k].size

C21_FinalizeReturnsTotals ==
  (/\ Len(log) >= 1 /\ FinalizeOk(Len(log))
   /\ \A i \in Calls : log[i].op = "init" => InitOk(i)) =>
    LET ret == log[Len(log)].ret IN
    /\ ret.packetsWritten = Cardinality(DataPagesInSink)
    /\ ret.granulePosition = SamplesOfPages(Len(sink))
    /\ ret.bytesWritten = BytesInSink(Len(sink))


\* C22: the first page init() emits is a single-segment page of header type
\* 0x02 whose payload is the 19-byte OpusHead packet (magic, version 1,
\* channel count, pre-skip, sample rate, output gain, mapping family 0) with
\* the values of the constructor options, and the second page carries an
\* OpusTags packet whose vendor string length, vendor string and comment
\* count are those of the constructor inputs; an option that was not given
\* counts as its default.
Given(opt, dflt) == IF opt.set THEN opt.v ELSE dflt
ReadUInt32(b, at) ==
  b[at] + 256 * b[at + 1] + 65536 * b[at + 2] + 16777216 * b[at + 3]
ReadUInt16(b, at) == b[at] + 256 * b[at + 1]
ReadInt16(b, at) ==
  IF ReadUInt16(b, at) >= 32768 THEN ReadUInt16(b, at) - 65536
  ELSE ReadUInt16(b, at)
OpusHeadMatches(page, o) ==
  /\ page.headerType = 2
  /\ Len(page.segments) = 1
  /\ Len(page.packet) = 19
  /\ SubSeq(page.packet, 1, 8) = MagicOpusHead
  /\ page.packet[9] = 1
  /\ page.packet[10] = Given(o.channels, 2)
  /\ ReadUInt16(page.packet, 11) = Given(o.preSkip, 0)
  /\ ReadUInt32(page.packet, 13) = Given(o.sampleRate, 48000)
  /\ ReadInt16(page.packet, 17) = Given(o.outputGain, 0)
  /\ page.packet[19] = 0
OpusTagsMatches(page, o) ==
  LET vendor == Given(o.vendorString, DefaultVendorString)
      n == ReadUInt32(page.packet, 9)
  IN  /\ SubSeq(page.packet, 1, 8) = MagicOpusTags
      /\ n = Len(vendor)
      /\ SubSeq(page.packet, 13, 12 + n) = vendor
      /\ ReadUInt32(page.packet, 13 + n) = Len(Given(o.comments, <<>>))
C22_HeaderPagesCarryTheOptions ==
  fnOut.fn = "init" =>
    /\ OpusHeadMatches(fnOut.pages[1], fnIn.options)
    /\ OpusTagsMatches(fnOut.pages[2], fnIn.options)


\* C23: the checksum writeOggPage stores at offset 22 is the reference CRC
\* of the page: the running value starts at 0 and for every byte becomes
\* (crc >> 8) XOR table[(crc XOR byte) AND 0xFF], the table entry of an
\* index being eight shift-right steps that XOR in 0x04C11DB7 whenever the
\* bit shifted out is 1, taken over the header with a zeroed checksum
\* field, then the segment table, then the payload.  It is an unsigned
\* 32-bit value, and being the reference CRC of this page's own bytes it
\* owes nothing to any earlier page.
RECURSIVE RefTableEntry(_, _)
RefTableEntry(v, steps) ==
  IF steps = 0 THEN v
  ELSE RefTableEntry(IF v[1] % 2 = 1 THEN Xor32(ShiftRight1(v), <<7607, 1217>>)
                     ELSE ShiftRight1(v), steps - 1)
RefTable == [i \in 0..255 |-> RefTableEntry(<<i, 0>>, 8)]
RECURSIVE RefCRC(_, _, _)
RefCRC(crc, bytes, k) ==
  IF k > Len(bytes) \/ crc = <<>> THEN crc
  ELSE RefCRC(Xor32(ShiftRight8(crc),
                    RefTable[Xor16(crc[1], bytes[k]) % 256]),
              bytes, k + 1)
PageBytesForCRC(out) ==
  SubSeq(out.pageHeader, 1, 22) \o <<0, 0, 0, 0>>
    \o SubSeq(out.pageHeader, 27, 27) \o out.segmentTable \o out.packet
StoredChecksum(out) ==
  <<out.pageHeader[23] + 256 * out.pageHeader[24],
    out.pageHeader[25] + 256 * out.pageHeader[26]>>
C23_ChecksumIsTheReferenceCRC ==
  (fnOut.fn = "writeOggPage" /\ ~fnOut.threw) =>
    /\ StoredChecksum(fnOut) = RefCRC(<<0, 0>>, PageBytesForCRC(fnOut), 1)
    /\ \A i \in 23..26 : fnOut.pageHeader[i] \in 0..255
C23_Witness ==
  /\ fnOut.fn = "writeOggPage" /\ ~fnOut.threw
  /\ fnOut.packet = <<83, 255, 0>>
  /\ fnIn.seq = <<0, 1>>
  /\ StoredChecksum(fnOut) # <<0, 0>>


\* C24: for every TOC byte 0..255 parseOpusTOC returns durationMs =
\* [10, 20, 40, 60][byte AND 3], frameCount = 1 for frame-count code 0 or 3,
\* 2 for code 1 or 2 and code - 3 for codes 4..15, samplesPerFrame =
\* durationMs * sampleRate / 1000 and samplesPerPacket = samplesPerFrame *
\* frameCount, which is positive, so that the packet moves the granule
\* position strictly forward.
FrameCountCodeOfInput == fnIn.tocByte \div 16
C24_ParseOpusTOCTable ==
  fnOut.fn = "parseOpusTOC" =>
    LET t == fnOut.tocInfo IN
    /\ t.durationMs = <<10, 20, 40, 60>>[(fnIn.tocByte % 4) + 1]
    /\ FrameCountCodeOfInput \in {0, 3} => t.frameCount = 1
    /\ FrameCountCodeOfInput \in {1, 2} => t.frameCount = 2
    /\ FrameCountCodeOfInput \in 4..15 => t.frameCount = FrameCountCodeOfInput - 3
    /\ t.samplesPerFrame * 1000 = t.durationMs * fnIn.sampleRate
    /\ t.samplesPerPacket = t.samplesPerFrame * t.frameCount
    /\ t.samplesPerPacket > 0
    /\ fnOut.granulePosition > fnIn.granulePosition
C24_Witness ==
  /\ fnOut.fn = "parseOpusTOC"
  /\ fnIn.tocByte = 255
  /\ fnOut.tocInfo.frameCount = 12
  /\ fnOut.tocInfo.durationMs = 60


\* C25: the tracks of a session are independent: a step that enqueues on,
\* drains, stops or fails the stream of one track (any step but the call of
\* finalizeRecording, which handles all tracks) changes the writeQueue,
\* pendingWrites, isProcessingQueue, stopped, counters and file of that one
\* track only.
TouchedTracks ==
  {u \in Users : \/ tracks'[u] # tracks[u]
                 \/ files'[FilePath(u)] # files[FilePath(u)]
                 \/ opened'[u] # opened[u]}
C25_TracksAreIndependent ==
  [][(finalizing # "no" \/ finalizing' = "no")
       => Cardinality(TouchedTracks) <= 1]_vars
C25_Witness ==
  /\ tracks["u1"].stopped /\ tracks["u1"].packetsWritten = 2
  /\ files[FilePath("u1")] = 2
  /\ ~tracks["u2"].stopped /\ tracks["u2"].awaitsDrain
  /\ tracks["u2"].pendingWrites > 0
  /\ files[FilePath("u2")] = 0
  /\ finalizing = "no"


\* C26: whenever init() has completed successfully, whatever calls came
\* before it, its OpusHead page has sequence number 0 and its OpusTags page
\* sequence number 1, both have granule position 0, and the writer's
\* granulePosition is 0 when init() returns.
HeadersOfCall(i) == {h \in 1..Len(sink) : HeaderAt(h) /\ sink[h].call = i}
C26_InitStartsFromZero ==
  \A i \in Calls :
    InitOk(i) =>
      /\ \A h \in HeadersOfCall(i) :
           /\ sink[h].granule = 0
           /\ sink[h].seq = IF sink[h].headerType = BosHeaderType THEN 0 ELSE 1
      /\ i = Len(log) => granulePosition = 0


\* C27: the promise of stopUserRecording eventually resolves or rejects
\* under fair scheduling of the stream, the polls and the close timer, also
\* when the stream fails while records are queued or while the worker waits
\* for 'drain'.
C27_StopSettles ==
  (stopPc \in {"polling", "closing"}) ~> (stopPc \in {"resolved", "rejected"})


\* C28: after a stream.write that returned false the worker hands no further
\* record to the stream and takes none from the queue until the stream emits
\* 'drain', and the promise of the record whose write returned false is
\* resolved by that 'drain' and not before.
DrainEmitted ==
  /\ needDrain /\ ~ending /\ ~destroyed
  /\ Len(streamBuffer) = 1
  /\ Len(file') = Len(file) + 1
C28_BackpressureIsHonoured ==
  /\ [](needDrain =>
          /\ workerItem # 0
          /\ handed[Len(handed)] = workerItem
          /\ promise[workerItem] = "pending")
  /\ [][(needDrain /\ ~DrainEmitted) =>
          /\ handed' = handed
          /\ Len(writeQueue') >= Len(writeQueue)
          /\ SubSeq(writeQueue', 1, Len(writeQueue)) = writeQueue
          /\ workerItem' = workerItem
          /\ promise'[workerItem] = "pending"]_vars
  /\ [][DrainEmitted => promise'[workerItem] = "resolved"]_vars
C28_Witness ==
  /\ needDrain /\ workerItem # 0
  /\ Len(writeQueue) > 0
  /\ Len(streamBuffer) = 1
  /\ Len(file) > 0


\* C29: finalizeRecording inspects and validates the file of a track only
\* after the write stream of that track has finished closing, also when a
\* stop of the same track that began earlier is still in progress.
C29_ValidatesClosedFilesOnly ==
  \A u \in validated : u \notin validatedOpen


\* C30: under every interleaving of subscribe, unsubscribe and finalize,
\* a user who leaves and joins again included, at most one raw-dump write
\* stream is ever opened for a user of the recording.
C30_OneWriteStreamPerTrack ==
  \A u \in Users : opened[u] <= 1

\* C31: for every granule position below 2^53 handed to writeOggPage, low
\* word of 2^31 or more included, the call succeeds and bytes 6..13 of the
\* page header are the position as a little-endian 64-bit number.
GranuleFieldOf(granulePos) ==
  [i \in 1..8 |->
     LET limb == granulePos[(i + 1) \div 2]
     IN  IF i % 2 = 1 THEN limb % 256 ELSE limb \div 256]

C31_GranuleFieldHoldsG ==
  (fnIn.fn = "writeOggPage" /\ fnOut # NoOut) =>
    /\ ~fnOut.threw
    /\ SubSeq(fnOut.pageHeader, 7, 14) = GranuleFieldOf(fnIn.granulePos)

\* C32: for every non-empty packet, whatever its length, written with a
\* granule position the header can hold, one page is produced: its
\* segment-count byte is the number of segment table entries, the entries
\* sum to the packet length, and the slices written after the table are the
\* packet's bytes in order.
RECURSIVE Concat(_)
Concat(seqs) == IF seqs = <<>> THEN <<>> ELSE Head(seqs) \o Concat(Tail(seqs))

C32_OnePagePerPacket ==
  (/\ fnIn.fn = "writeOggPage" /\ fnOut # NoOut
   /\ fnIn.packet # <<>>
   /\ ~GranulePosLowNegative(fnIn.granulePos)) =>
    /\ ~fnOut.threw
    /\ fnOut.pageHeader[27] = Len(fnOut.segmentTable)
    /\ SumSeq(fnOut.segmentTable) = Len(fnIn.packet)
    /\ Concat(fnOut.slices) = fnIn.packet

\* C33: for a file that fs can stat and read, validateRawDumpFile reports
\* valid exactly when the file exists, has at least 10 bytes and at least
\* 2 + L + 8 bytes, L being the little-endian 16-bit number in its first two
\* bytes; and for every file, readable or not, it returns a result and does
\* not throw.
FirstU16(bytes) == bytes[1] + 256 * bytes[2]

HoldsFirstRecord(bytes) ==
  Len(bytes) >= 10 /\ Len(bytes) >= 2 + FirstU16(bytes) + 8

C33_ValidIffFirstRecordFits ==
  (fnIn.fn = "validateRawDumpFile" /\ fnOut # NoOut) =>
    /\ ~fnOut.threw
    /\ fnIn.file.fails = "none" =>
         (fnOut.valid <=> (fnIn.file.exists /\ HoldsFirstRecord(fnIn.file.bytes)))

C33_Witness ==
  /\ fnIn.fn = "validateRawDumpFile" /\ fnOut # NoOut
  /\ fnIn.file.exists /\ fnIn.file.fails = "none"
  /\ Len(fnIn.file.bytes) = 12 /\ FirstU16(fnIn.file.bytes) = 3
  /\ ~fnOut.valid

\* C34: at every moment controller.bytesWritten is the total size of the
\* records of the 'data' handler whose enqueue promise has resolved, and
\* controller.packetsWritten is at most the number of enqueue promises that
\* have resolved.
ResolvedEnqueues == {i \in Enqueues : promise[i] = "resolved"}

RECURSIVE SizeOfResolved(_)
SizeOfResolved(k) ==
  IF k = 0 THEN 0
  ELSE SizeOfResolved(k - 1)
         + (IF promise[k] = "resolved" /\ frames[k].stats
            THEN FrameSize(frames[k].buffer) ELSE 0)

C34_StatsCountWrittenFrames ==
  /\ ctlBytesWritten = SizeOfResolved(Len(promise))
  /\ ctlPacketsWritten <= Cardinality(ResolvedEnqueues)

\* C35: a writeOpusPacket call that ends in an error leaves the writer's
\* counters as they were before it, so at every moment packetsWritten is the
\* number of writeOpusPacket calls with a valid packet that have not ended
\* in an error, and granulePosition is the sum of the samples of their
\* packets.
WritesNotFailed ==
  {i \in Calls : ValidWrite(i) /\ log[i].res \notin {"err", "ioerr"}}

RECURSIVE SamplesOfWritesNotFailed(_)
SamplesOfWritesNotFailed(k) ==
  IF k = 0 THEN 0
  ELSE SamplesOfWritesNotFailed(k - 1)
         + (IF k \in WritesNotFailed THEN SamplesPerPacket(log[k].pkt.toc)
            ELSE 0)

C35_FailedWriteLeavesNoTrace ==
  /\ packetsWritten = Cardinality(WritesNotFailed)
  /\ granulePosition = SamplesOfWritesNotFailed(Len(log))

\* C36: in every reachable state of a track's writer isProcessingQueue is
\* true exactly while the one processWriteQueue loop is suspended inside its
\* body, and pendingWrites is the number of queued items plus the item taken
\* from the queue and not yet settled (none or one); it is never negative.
LoopActive == workerItem # 0

Unsettled == IF LoopActive THEN 1 ELSE 0

C36_OneWorkerAndPendingCount ==
  /\ isProcessingQueue <=> LoopActive
  /\ LoopActive => promise[workerItem] = "pending"
  /\ pendingWrites = Len(writeQueue) + Unsettled
  /\ pendingWrites >= 0

C36_Witness ==
  /\ LoopActive /\ isProcessingQueue
  /\ Len(writeQueue) >= 1
  /\ pendingWrites = Len(writeQueue) + 1
  /\ \E i \in Enqueues : promise[i] = "resolved"

\* C37: finalizeRecording runs at most once for a recording session: at most
\* one call goes past its guard and stops the tracks, the recording's
\* metadata is saved at most once and staff are notified at most once,
\* however often the function is invoked again while or after it runs.
C37_FinalizeRunsOnce ==
  /\ finalizeRuns <= 1
  /\ saved <= 1
  /\ notified <= 1

C37_Witness ==
  /\ skipped
  /\ finalizeRuns = 1
  /\ notified = 1
  /\ finalizing = "deleted"

====
